---- MODULE Spec2Model ----
(***************************************************************************)
(* Config integrity lifecycle of openclaw: the backup enumerator, the      *)
(* backup validator (findValidBackup), the recovery engine                 *)
(* (tryRecoverConfigFromBackup) and the startup gate (ensureConfigReady).  *)
(*                                                                         *)
(* The file system is a function from path strings to files.  Every await  *)
(* of the TypeScript source is a separate step, so the states between a    *)
(* rename and the following copy are states of the model.                  *)
(***************************************************************************)
EXTENDS Integers, Sequences, FiniteSets, TLC

\* ------------------------------------------------------------------ bounds
\* retention count imported by recovery.ts:3 from backup-rotation.js; the
\* engine is generic in it
CONFIG_BACKUP_COUNT == 3
\* number of ensureConfigReady invocations (or direct engine calls) per process
MaxCalls == 2

Calls == 1..MaxCalls

\* ------------------------------------------------------------ file contents
ConfigPath == "openclaw.json"

TextA == "{gateway:{mode:'local'}}"
TextB == "{models:{aliases:{fast:'test'}}}"
TextBadShape == "{bogus:1}"
TextGarbage == "INVALID JSON {{{"
TextCorrupt == "CORRUPT CONFIG"
TextStale == "OLD QUARANTINE"

Absent == [exists |-> FALSE, readable |-> FALSE, text |-> ""]
File(t) == [exists |-> TRUE, readable |-> TRUE, text |-> t]
\* a path that exists but whose readFileSync throws (EACCES, a directory ...)
Unreadable == [exists |-> TRUE, readable |-> FALSE, text |-> ""]

\* json5.parse: throws on malformed text, otherwise yields the parsed value
Json5Parse(raw) ==
  CASE raw = TextA -> [threw |-> FALSE, value |-> "gateway.mode=local"]
    [] raw = TextB -> [threw |-> FALSE, value |-> "models.aliases.fast=test"]
    [] raw = TextBadShape -> [threw |-> FALSE, value |-> "bogus=1"]
    [] OTHER -> [threw |-> TRUE, value |-> ""]

\* validateConfigObjectRaw: a typed config, or issues
validateConfigObjectRaw(parsed) ==
  IF parsed \in {"gateway.mode=local", "models.aliases.fast=test"}
  THEN [ok |-> TRUE, config |-> parsed]
  ELSE [ok |-> FALSE, config |-> ""]

\* ------------------------------------------------------- backup enumerator
NumberToString(i) ==
  CASE i = 1 -> "1" [] i = 2 -> "2" [] i = 3 -> "3" [] i = 4 -> "4"
    [] i = 5 -> "5" [] i = 6 -> "6" [] i = 7 -> "7" [] i = 8 -> "8"
    [] OTHER -> "9"

\* the loop runs once too often
buildBackupCandidatesOneMore(configPath) ==
  [k \in 1..(CONFIG_BACKUP_COUNT + 1) |->
     IF k = 1
     THEN [path |-> configPath \o ".bak", label |-> ".bak (most recent)"]
     ELSE [path |-> configPath \o ".bak." \o NumberToString(k - 1),
           label |-> ".bak." \o NumberToString(k - 1)]]

\* candidates[k] of the source is buildBackupCandidates(p)[k + 1] here
buildBackupCandidates(configPath) ==
  [k \in 1..CONFIG_BACKUP_COUNT |->
     IF k = 1
     THEN [path |-> configPath \o ".bak", label |-> ".bak (most recent)"]
     ELSE [path |-> configPath \o ".bak." \o NumberToString(k - 1),
           label |-> ".bak." \o NumberToString(k - 1)]]

CorruptedPath(configPath) == configPath \o ".corrupted"

BackupPaths == {buildBackupCandidates(ConfigPath)[k].path : k \in 1..CONFIG_BACKUP_COUNT}
Paths == {ConfigPath, CorruptedPath(ConfigPath)} \cup BackupPaths

\* ------------------------------------------------------------------- state
VARIABLES
  files,                   \* the file system: path -> file
  findResult,              \* last findValidBackup call: result and probes
  rec,                     \* per call: the activation of tryRecoverConfigFromBackup
  gate,                    \* per call: the activation of ensureConfigReady
  testMode,                \* process.env.VITEST === "true"
  didRunDoctorConfigFlow,  \* config-guard.ts:23
  doctorRuns,              \* the loadAndMaybeMigrateDoctorConfig calls made so far
  configSnapshotPromise,   \* config-guard.ts:24, 0 = null, else index in reads
  reads,                   \* the readConfigFileSnapshot calls made so far
  exitCode,                \* 0 while the process runs, else runtime.exit's argument
  guard,                   \* the last validateConfigWriteIntegrity call and its rendering
  auth,                    \* the applyAuthChoiceOllama call: position, prompts, result
  enumerated               \* the buildBackupCandidates calls made, with their results

vars == <<files, findResult, rec, gate, testMode, didRunDoctorConfigFlow,
          doctorRuns, configSnapshotPromise, reads, exitCode, guard, auth,
          enumerated>>

existsSync(f, p) == f[p].exists

\* the validator's verdict is ignored: whatever parses is usable
ReadBackupNoValidation(f, p) ==
  IF ~f[p].readable THEN [threw |-> TRUE, ok |-> FALSE, config |-> ""]
  ELSE LET parsed == Json5Parse(f[p].text) IN
       IF parsed.threw THEN [threw |-> TRUE, ok |-> FALSE, config |-> ""]
       ELSE [threw |-> FALSE, ok |-> TRUE, config |-> parsed.value]

\* recovery.ts:32-34 and 70-72 for one existing candidate: readFileSync or
\* json5.parse throws, or the validator's verdict on the parsed value
ReadBackup(f, p) ==
  IF ~f[p].readable THEN [threw |-> TRUE, ok |-> FALSE, config |-> ""]
  ELSE LET parsed == Json5Parse(f[p].text) IN
       IF parsed.threw THEN [threw |-> TRUE, ok |-> FALSE, config |-> ""]
       ELSE [threw |-> FALSE] @@ validateConfigObjectRaw(parsed.value)

\* recovery.ts:31-40, the try block of findValidBackup: a throw is caught and
\* the candidate is unusable
ValidateBackup(f, p) ==
  LET validated == ReadBackup(f, p) IN
  IF validated.threw THEN [ok |-> FALSE, config |-> ""]
  ELSE [ok |-> validated.ok, config |-> validated.config]

\* --------------------------------------------------------- findValidBackup
NoCandidate == [path |-> "", label |-> "", config |-> ""]

\* the loop of recovery.ts:27-41 from candidate k on; probed and read record
\* the slots on which existsSync and readFileSync were called
RECURSIVE FindFrom(_, _, _, _, _)
FindFrom(f, configPath, k, probed, read) ==
  LET candidates == buildBackupCandidates(configPath) IN
  IF k > Len(candidates)
  THEN [found |-> FALSE, candidate |-> NoCandidate, probed |-> probed, read |-> read]
  ELSE LET candidate == candidates[k] IN
       IF ~existsSync(f, candidate.path)
       THEN FindFrom(f, configPath, k + 1, probed \cup {k}, read)
       ELSE LET validated == ValidateBackup(f, candidate.path) IN
            IF validated.ok
            THEN [found |-> TRUE,
                  candidate |-> [path |-> candidate.path, label |-> candidate.label,
                                 config |-> validated.config],
                  probed |-> probed \cup {k}, read |-> read \cup {k}]
            ELSE FindFrom(f, configPath, k + 1, probed \cup {k}, read \cup {k})

\* the loop starts at the second candidate
findValidBackupSkipsMostRecent(f, configPath) == FindFrom(f, configPath, 2, {}, {})

findValidBackup(f, configPath) == FindFrom(f, configPath, 1, {}, {})

\* ---------------------------------------------- tryRecoverConfigFromBackup
NoResult == [recovered |-> FALSE, candidate |-> NoCandidate, backupsChecked |-> 0,
             reason |-> ""]
IdleRec == [pc |-> "idle", k |-> 0, backupsChecked |-> 0, config |-> "",
            result |-> NoResult, before |-> [p \in Paths |-> Absent], aborted |-> {}]

\* the try block ends before the quarantine step
RecoverCatchReadOnly == {"read"}

\* the operations of one candidate's attempt that lie inside the try block of
\* recovery.ts:69-94, whose catch moves on to the next candidate
RecoverCatch == {"read", "copyAside", "restore"}

\* the counter is incremented before the existence check
RECURSIVE ScanFromCountsAbsent(_, _, _, _)
ScanFromCountsAbsent(f, configPath, k, backupsChecked) ==
  LET candidates == buildBackupCandidates(configPath) IN
  IF k > Len(candidates)
  THEN [found |-> FALSE, threw |-> FALSE, k |-> k, backupsChecked |-> backupsChecked,
        config |-> ""]
  ELSE IF ~existsSync(f, candidates[k].path)
       THEN ScanFromCountsAbsent(f, configPath, k + 1, backupsChecked + 1)
       ELSE LET validated == ReadBackup(f, candidates[k].path) IN
            IF ~validated.threw /\ validated.ok
            THEN [found |-> TRUE, threw |-> FALSE, k |-> k,
                  backupsChecked |-> backupsChecked + 1, config |-> validated.config]
            ELSE ScanFromCountsAbsent(f, configPath, k + 1, backupsChecked + 1)

\* the synchronous part of the loop of recovery.ts:64-75 from candidate k on:
\* skip absent slots, count existing ones, stop at the first one that validates
\* (or at a throw that no catch covers)
RECURSIVE ScanFrom(_, _, _, _)
ScanFrom(f, configPath, k, backupsChecked) ==
  LET candidates == buildBackupCandidates(configPath) IN
  IF k > Len(candidates)
  THEN [found |-> FALSE, threw |-> FALSE, k |-> k, backupsChecked |-> backupsChecked,
        config |-> ""]
  ELSE IF ~existsSync(f, candidates[k].path)
       THEN ScanFrom(f, configPath, k + 1, backupsChecked)
       ELSE LET validated == ReadBackup(f, candidates[k].path) IN
            IF validated.threw /\ "read" \notin RecoverCatch
            THEN [found |-> FALSE, threw |-> TRUE, k |-> k,
                  backupsChecked |-> backupsChecked + 1, config |-> ""]
            ELSE IF ~validated.threw /\ validated.ok
            THEN [found |-> TRUE, threw |-> FALSE, k |-> k,
                  backupsChecked |-> backupsChecked + 1, config |-> validated.config]
            ELSE ScanFrom(f, configPath, k + 1, backupsChecked + 1)

\* the two reasons are swapped
FailureResultSwapped(backupsChecked) ==
  [recovered |-> FALSE, candidate |-> NoCandidate, backupsChecked |-> backupsChecked,
   reason |-> IF backupsChecked > 0 THEN "no backup files found"
              ELSE "all backup files are invalid or unreadable"]

\* recovery.ts:97-102
FailureResult(backupsChecked) ==
  [recovered |-> FALSE, candidate |-> NoCandidate, backupsChecked |-> backupsChecked,
   reason |-> IF backupsChecked = 0 THEN "no backup files found"
              ELSE "all backup files are invalid or unreadable"]

\* recovery.ts:87-91
SuccessResult(r) ==
  LET candidate == buildBackupCandidates(ConfigPath)[r.k] IN
  [recovered |-> TRUE,
   candidate |-> [path |-> candidate.path, label |-> candidate.label, config |-> r.config],
   backupsChecked |-> r.backupsChecked, reason |-> ""]

\* the source is removed and the destination is left as it was
RenameFileLosesSource(f, from, to) == [f EXCEPT ![from] = Absent]
\* the copy takes its source away
CopyFileMoves(f, from, to) == [f EXCEPT ![to] = f[from], ![from] = Absent]

\* fs.promises.rename: atomic, the destination is replaced
RenameFile(f, from, to) == [f EXCEPT ![to] = f[from], ![from] = Absent]
\* fs.promises.copyFile, completed
CopyFile(f, from, to) == [f EXCEPT ![to] = f[from]]
\* fs.promises.copyFile, failed: before the destination was opened (nothing
\* changes) or after it (the destination is unlinked)
CopyFileFailed(f, to, unlinked) == IF unlinked THEN [f EXCEPT ![to] = Absent] ELSE f

\* ------------------------------------------------------------ startup gate
ALLOWED_INVALID_COMMANDS == {"doctor", "logs", "health", "help", "status"}
\* the foreground run is allowed as well
GatewaySubcommandsWithRun ==
  {"status", "probe", "health", "discover", "call", "install", "uninstall",
   "start", "stop", "restart", "run"}

ALLOWED_INVALID_GATEWAY_SUBCOMMANDS ==
  {"status", "probe", "health", "discover", "call", "install", "uninstall",
   "start", "stop", "restart"}

\* the command paths the dispatcher hands to the gate
CommandPaths ==
  {<<>>, <<"gateway">>, <<"agent">>, <<"config", "set">>, <<"gateway", "run">>,
   <<"status", "run">>, <<"run", "status">>}
  \cup {<<c>> : c \in ALLOWED_INVALID_COMMANDS}
  \cup {<<"gateway", s>> : s \in ALLOWED_INVALID_GATEWAY_SUBCOMMANDS}
  \cup {<<"gateway", c>> : c \in {"doctor", "logs", "help"}}

\* the subcommand test is dropped: any gateway command may proceed
AllowInvalidAnyGateway(commandPath) ==
  IF Len(commandPath) >= 1 /\ commandPath[1] # ""
  THEN \/ commandPath[1] \in ALLOWED_INVALID_COMMANDS
       \/ commandPath[1] = "gateway"
  ELSE FALSE

\* config-guard.ts:54-61; a missing element of commandPath is undefined (falsy)
AllowInvalid(commandPath) ==
  IF Len(commandPath) >= 1 /\ commandPath[1] # ""
  THEN \/ commandPath[1] \in ALLOWED_INVALID_COMMANDS
       \/ /\ commandPath[1] = "gateway"
          /\ Len(commandPath) >= 2 /\ commandPath[2] # ""
          /\ commandPath[2] \in ALLOWED_INVALID_GATEWAY_SUBCOMMANDS
  ELSE FALSE

\* cli/argv.js: read-only commands do not trigger the state migration
shouldMigrateStateFromPath(commandPath) ==
  IF Len(commandPath) = 0 THEN TRUE
  ELSE commandPath[1] \notin {"health", "status", "agent"}

NoSnapshot == [path |-> "", exists |-> FALSE, valid |-> FALSE, issues |-> <<>>,
               legacyIssues |-> <<>>]
LegacyIssue == [path |-> "routing", message |-> "legacy key"]

\* config/config.js: the snapshot of the primary file as it is now; valid only
\* if the file exists, parses and passes the validator
readConfigFileSnapshot(f, legacy) ==
  LET primary == f[ConfigPath]
      ok == primary.exists /\ ValidateBackup(f, ConfigPath).ok
  IN [path |-> ConfigPath, exists |-> primary.exists, valid |-> ok,
      issues |-> IF ok THEN <<>> ELSE <<[path |-> "", message |-> "invalid config"]>>,
      legacyIssues |-> IF legacy THEN <<LegacyIssue>> ELSE <<>>]

RECURSIVE Join(_, _)
Join(lines, sep) ==
  IF Len(lines) = 0 THEN ""
  ELSE IF Len(lines) = 1 THEN lines[1]
  ELSE lines[1] \o sep \o Join(Tail(lines), sep)

\* config-guard.ts:27-29
formatConfigIssues(issues) ==
  [n \in 1..Len(issues) |->
     "- " \o (IF issues[n].path # "" THEN issues[n].path ELSE "<root>") \o ": "
          \o issues[n].message]

Indent(lines) == [n \in 1..Len(lines) |-> "  " \o lines[n]]

\* config-guard.ts:80-91, the runtime.error calls after a recovery
RestoredDiagnostics(snapshot, recovery) ==
  << "Config was invalid - automatically restored from backup",
     "Restored from: " \o recovery.candidate.label,
     "The corrupted config was saved to: " \o CorruptedPath(snapshot.path),
     "Run openclaw doctor --fix to review." >>

\* config-guard.ts:62-66 and 103-123, the runtime.error calls of the failure path
InvalidDiagnostics(snapshot, recovery) ==
  LET issues == IF snapshot.exists /\ ~snapshot.valid
                THEN formatConfigIssues(snapshot.issues) ELSE <<>>
      legacyIssues ==
        IF Len(snapshot.legacyIssues) > 0
        THEN [n \in 1..Len(snapshot.legacyIssues) |->
                "- " \o snapshot.legacyIssues[n].path \o ": "
                     \o snapshot.legacyIssues[n].message]
        ELSE <<>>
  IN << "Config invalid", "File: " \o snapshot.path >>
     \o (IF Len(issues) > 0 THEN << "Problem:", Join(Indent(issues), "\n") >> ELSE <<>>)
     \o (IF Len(legacyIssues) > 0
         THEN << "Legacy config keys detected:", Join(Indent(legacyIssues), "\n") >>
         ELSE <<>>)
     \o (IF recovery.backupsChecked > 0
         THEN << "Checked " \o NumberToString(recovery.backupsChecked)
                 \o " backup(s) but none were valid." >>
         ELSE << "No backup files available for recovery." >>)
     \o << "", "Run: openclaw doctor --fix" >>

\* the process is ended before anything is printed
RuntimeCallsExitFirst(lines, exits) ==
  [n \in 1..Len(exits) |-> [fn |-> "exit", line |-> "", code |-> exits[n]]]
  \o [n \in 1..Len(lines) |-> [fn |-> "error", line |-> lines[n], code |-> 0]]

\* config-guard.ts:80-91 and 103-126: the calls on params.runtime in program
\* order, the runtime.error calls and then the runtime.exit call if there is one
RuntimeCalls(lines, exits) ==
  [n \in 1..Len(lines) |-> [fn |-> "error", line |-> lines[n], code |-> 0]]
  \o [n \in 1..Len(exits) |-> [fn |-> "exit", line |-> "", code |-> exits[n]]]

IdleGate == [pc |-> "idle", commandPath |-> <<>>, awaiting |-> 0,
             snapshot |-> NoSnapshot, recovery |-> NoResult, out |-> <<>>,
             exitCalls |-> <<>>, trace |-> <<>>]

\* ----------------------------------------------------------------- actions
Running == exitCode = 0

\* the existence test is dropped
IsInvalidIgnoresExists(snapshot) == ~snapshot.valid

\* config-guard.ts:68
IsInvalid(snapshot) == snapshot.exists /\ ~snapshot.valid

\* the cached snapshot promise is not reset after a recovery
GateResumeKeepsCache(c, g, result) ==
  /\ gate' = [gate EXCEPT ![c] =
                [g EXCEPT !.pc = IF result.recovered \/ AllowInvalid(g.commandPath)
                                 THEN "returned" ELSE "exited",
                          !.recovery = result,
                          !.out = IF result.recovered
                                  THEN RestoredDiagnostics(g.snapshot, result)
                                  ELSE InvalidDiagnostics(g.snapshot, result),
                          !.exitCalls = IF result.recovered \/ AllowInvalid(g.commandPath)
                                        THEN <<>> ELSE <<1>>,
                          !.trace = RuntimeCalls(
                                      IF result.recovered
                                      THEN RestoredDiagnostics(g.snapshot, result)
                                      ELSE InvalidDiagnostics(g.snapshot, result),
                                      IF result.recovered \/ AllowInvalid(g.commandPath)
                                      THEN <<>> ELSE <<1>>)]]
  /\ configSnapshotPromise' = configSnapshotPromise
  /\ exitCode' = IF result.recovered \/ AllowInvalid(g.commandPath) THEN exitCode ELSE 1

\* config-guard.ts:75-95 and 97-126: ensureConfigReady, in state g, resumes
\* with the engine's result
GateResume(c, g, result) ==
  IF result.recovered
  THEN /\ gate' = [gate EXCEPT ![c] =
                     [g EXCEPT !.pc = "returned", !.recovery = result,
                               !.out = RestoredDiagnostics(g.snapshot, result),
                               !.trace = RuntimeCalls(RestoredDiagnostics(g.snapshot, result),
                                                      <<>>)]]
       /\ configSnapshotPromise' = 0
       /\ exitCode' = exitCode
  ELSE /\ gate' = [gate EXCEPT ![c] =
                     [g EXCEPT !.pc = IF AllowInvalid(g.commandPath)
                                      THEN "returned" ELSE "exited",
                               !.recovery = result,
                               !.out = InvalidDiagnostics(g.snapshot, result),
                               !.exitCalls = IF AllowInvalid(g.commandPath)
                                             THEN <<>> ELSE <<1>>,
                               !.trace = RuntimeCalls(InvalidDiagnostics(g.snapshot, result),
                                                      IF AllowInvalid(g.commandPath)
                                                      THEN <<>> ELSE <<1>>)]]
       /\ configSnapshotPromise' = configSnapshotPromise
       /\ exitCode' = IF AllowInvalid(g.commandPath) THEN exitCode ELSE 1

\* tryRecoverConfigFromBackup returns: to the gate (g.pc = "recovering") when
\* the gate called it, to a direct caller otherwise
Return(c, g, r, result) ==
  /\ rec' = [rec EXCEPT ![c] = [r EXCEPT !.pc = "done", !.result = result]]
  /\ IF g.pc = "recovering"
     THEN GateResume(c, g, result)
     ELSE /\ gate' = [gate EXCEPT ![c] = g]
          /\ UNCHANGED <<configSnapshotPromise, exitCode>>

\* an exception leaves tryRecoverConfigFromBackup: its promise rejects, and so
\* does the ensureConfigReady that awaits it
Throw(c, g, r) ==
  /\ rec' = [rec EXCEPT ![c] = [r EXCEPT !.pc = "threw"]]
  /\ gate' = [gate EXCEPT ![c] =
                IF g.pc = "recovering" THEN [g EXCEPT !.pc = "rejected"] ELSE g]
  /\ UNCHANGED <<configSnapshotPromise, exitCode>>

\* recovery.ts:64-86 up to the next await: scan on from candidate k; at the
\* first candidate that validates issue the rename (primary exists) or the
\* restoring copy (it does not); with no candidate left, return the failure
Advance(c, g, r, k, f) ==
  LET s == ScanFrom(f, ConfigPath, k, r.backupsChecked)
      scanned == [r EXCEPT !.k = s.k, !.backupsChecked = s.backupsChecked,
                           !.config = s.config]
  IN
  IF s.found
  THEN /\ rec' = [rec EXCEPT ![c] =
                    [scanned EXCEPT !.pc = IF existsSync(f, ConfigPath)
                                           THEN "rename" ELSE "restore"]]
       /\ gate' = [gate EXCEPT ![c] = g]
       /\ UNCHANGED <<configSnapshotPromise, exitCode>>
  ELSE IF s.threw THEN Throw(c, g, scanned)
  ELSE Return(c, g, scanned, FailureResult(s.backupsChecked))

\* a failed operation ends the whole call with the failure result
AbandonGivesUp(c, r, op, f) ==
  IF op \in RecoverCatch
  THEN Return(c, gate[c], [r EXCEPT !.aborted = @ \cup {r.k}],
              FailureResult(r.backupsChecked))
  ELSE Throw(c, gate[c], r)

\* a failed operation sends the loop back to the first candidate
AbandonRestarts(c, r, op, f) ==
  IF op \in RecoverCatch
  THEN Advance(c, gate[c], [r EXCEPT !.aborted = @ \cup {r.k}, !.backupsChecked = 0], 1, f)
  ELSE Throw(c, gate[c], r)

\* recovery.ts:92-94: an operation of candidate r.k threw; inside the try
\* block the attempt is abandoned and the loop goes on, outside it the call
\* throws
Abandon(c, r, op, f) ==
  IF op \in RecoverCatch
  THEN Advance(c, gate[c], [r EXCEPT !.aborted = @ \cup {r.k}], r.k + 1, f)
  ELSE Throw(c, gate[c], r)

\* a direct call of tryRecoverConfigFromBackup(ConfigPath), one at a time
CallRecover(c) ==
  /\ Running
  /\ rec[c].pc = "idle" /\ gate[c].pc = "idle"
  /\ \A d \in Calls : d < c => rec[d].pc \in {"done", "threw"}
  /\ Advance(c, gate[c], [IdleRec EXCEPT !.before = files], 1, files)
  /\ UNCHANGED <<files, findResult, testMode, auth, enumerated, guard, didRunDoctorConfigFlow, doctorRuns, reads>>

\* recovery.ts:80, the rename of the primary to the quarantine path succeeds
RenameOk(c) ==
  /\ Running
  /\ rec[c].pc = "rename"
  /\ existsSync(files, ConfigPath)
  /\ files' = RenameFile(files, ConfigPath, CorruptedPath(ConfigPath))
  /\ rec' = [rec EXCEPT ![c].pc = "restore"]
  /\ UNCHANGED <<findResult, gate, testMode, auth, enumerated, guard, didRunDoctorConfigFlow, doctorRuns,
                 configSnapshotPromise, reads, exitCode>>

\* recovery.ts:81-83, the rename throws and the copy fallback is issued
RenameFailed(c) ==
  /\ Running
  /\ rec[c].pc = "rename"
  /\ rec' = [rec EXCEPT ![c].pc = "copyAside"]
  /\ UNCHANGED <<files, findResult, gate, testMode, auth, enumerated, guard, didRunDoctorConfigFlow, doctorRuns,
                 configSnapshotPromise, reads, exitCode>>

\* recovery.ts:83, the fallback copy succeeds
CopyAsideOk(c) ==
  /\ Running
  /\ rec[c].pc = "copyAside"
  /\ existsSync(files, ConfigPath)
  /\ files' = CopyFile(files, ConfigPath, CorruptedPath(ConfigPath))
  /\ rec' = [rec EXCEPT ![c].pc = "restore"]
  /\ UNCHANGED <<findResult, gate, testMode, auth, enumerated, guard, didRunDoctorConfigFlow, doctorRuns,
                 configSnapshotPromise, reads, exitCode>>

\* recovery.ts:83 and 92-94, the fallback copy throws too
CopyAsideFailed(c) ==
  /\ Running
  /\ rec[c].pc = "copyAside"
  /\ \E unlinked \in BOOLEAN :
       /\ unlinked => existsSync(files, CorruptedPath(ConfigPath))
       /\ files' = CopyFileFailed(files, CorruptedPath(ConfigPath), unlinked)
       /\ Abandon(c, rec[c], "copyAside", files')
  /\ UNCHANGED <<findResult, testMode, auth, enumerated, guard, didRunDoctorConfigFlow, doctorRuns, reads>>

\* the restoring copy has its arguments swapped
RestoreOkReversed(c) ==
  /\ Running
  /\ rec[c].pc = "restore"
  /\ files' = CopyFile(files, ConfigPath, buildBackupCandidates(ConfigPath)[rec[c].k].path)
  /\ Return(c, gate[c], rec[c], SuccessResult(rec[c]))
  /\ UNCHANGED <<findResult, testMode, auth, enumerated, guard, didRunDoctorConfigFlow, doctorRuns, reads>>

\* recovery.ts:86-91, the candidate is copied over the primary path
RestoreOk(c) ==
  /\ Running
  /\ rec[c].pc = "restore"
  /\ files' = CopyFile(files, buildBackupCandidates(ConfigPath)[rec[c].k].path, ConfigPath)
  /\ Return(c, gate[c], rec[c], SuccessResult(rec[c]))
  /\ UNCHANGED <<findResult, testMode, auth, enumerated, guard, didRunDoctorConfigFlow, doctorRuns, reads>>

\* recovery.ts:86 and 92-94, the restoring copy throws
RestoreFailed(c) ==
  /\ Running
  /\ rec[c].pc = "restore"
  /\ \E unlinked \in BOOLEAN :
       /\ unlinked => existsSync(files, ConfigPath)
       /\ files' = CopyFileFailed(files, ConfigPath, unlinked)
       /\ Abandon(c, rec[c], "restore", files')
  /\ UNCHANGED <<findResult, testMode, auth, enumerated, guard, didRunDoctorConfigFlow, doctorRuns, reads>>

Engine(c) ==
  \/ RenameOk(c) \/ RenameFailed(c) \/ CopyAsideOk(c) \/ CopyAsideFailed(c)
  \/ RestoreOk(c) \/ RestoreFailed(c)

NoFind == [called |-> FALSE, found |-> FALSE, candidate |-> NoCandidate,
           probed |-> {}, read |-> {}]

\* a call of findValidBackup(ConfigPath)
CallFindValidBackup ==
  /\ Running
  /\ ~findResult.called
  /\ findResult' = [called |-> TRUE] @@ findValidBackup(files, ConfigPath)
  /\ UNCHANGED <<files, rec, gate, testMode, auth, enumerated, guard, didRunDoctorConfigFlow, doctorRuns,
                 configSnapshotPromise, reads, exitCode>>

PendingRead == [state |-> "pending", snapshot |-> NoSnapshot]

\* "=" in place of "??=": every call reads again and replaces the cache
GetConfigSnapshotOverwrites(c, g) ==
  /\ reads' = Append(reads, PendingRead)
  /\ configSnapshotPromise' = IF testMode THEN configSnapshotPromise ELSE Len(reads) + 1
  /\ gate' = [gate EXCEPT ![c] = [g EXCEPT !.pc = "snapshot",
                                           !.awaiting = Len(reads) + 1]]

\* the test-mode bypass is missing
GetConfigSnapshotCachesInTestMode(c, g) ==
  IF configSnapshotPromise = 0
  THEN /\ reads' = Append(reads, PendingRead)
       /\ configSnapshotPromise' = Len(reads) + 1
       /\ gate' = [gate EXCEPT ![c] = [g EXCEPT !.pc = "snapshot",
                                                !.awaiting = Len(reads) + 1]]
  ELSE /\ reads' = reads
       /\ configSnapshotPromise' = configSnapshotPromise
       /\ gate' = [gate EXCEPT ![c] = [g EXCEPT !.pc = "snapshot",
                                                !.awaiting = configSnapshotPromise]]

\* config-guard.ts:31-38 getConfigSnapshot, called by invocation c, which
\* then awaits the promise it returns
GetConfigSnapshot(c, g) ==
  IF testMode
  THEN /\ reads' = Append(reads, PendingRead)
       /\ configSnapshotPromise' = configSnapshotPromise
       /\ gate' = [gate EXCEPT ![c] = [g EXCEPT !.pc = "snapshot",
                                                !.awaiting = Len(reads) + 1]]
  ELSE IF configSnapshotPromise = 0
  THEN /\ reads' = Append(reads, PendingRead)
       /\ configSnapshotPromise' = Len(reads) + 1
       /\ gate' = [gate EXCEPT ![c] = [g EXCEPT !.pc = "snapshot",
                                                !.awaiting = Len(reads) + 1]]
  ELSE /\ reads' = reads
       /\ configSnapshotPromise' = configSnapshotPromise
       /\ gate' = [gate EXCEPT ![c] = [g EXCEPT !.pc = "snapshot",
                                                !.awaiting = configSnapshotPromise]]

\* config-guard.ts:47-50, the arguments of the migration flow: non-interactive,
\* and confirm answers false to every question
DoctorCall(c) == [by |-> c, nonInteractive |-> TRUE, confirm |-> FALSE]

\* the flag is not set before the flow is awaited
InvokeForgetsFlag(c, commandPath) ==
  /\ Running
  /\ gate[c].pc = "idle" /\ rec[c].pc = "idle"
  /\ \A d \in Calls : d < c => gate[d].pc # "idle"
  /\ LET g == [gate[c] EXCEPT !.commandPath = commandPath] IN
     IF ~didRunDoctorConfigFlow /\ shouldMigrateStateFromPath(commandPath)
     THEN /\ doctorRuns' = Append(doctorRuns, DoctorCall(c))
          /\ gate' = [gate EXCEPT ![c] = [g EXCEPT !.pc = "doctor"]]
          /\ UNCHANGED <<didRunDoctorConfigFlow, reads, configSnapshotPromise>>
     ELSE /\ GetConfigSnapshot(c, g)
          /\ UNCHANGED <<didRunDoctorConfigFlow, doctorRuns>>
  /\ UNCHANGED <<files, findResult, rec, testMode, auth, enumerated, guard, exitCode>>

\* config-guard.ts:40-53, ensureConfigReady is called with a command path
Invoke(c, commandPath) ==
  /\ Running
  /\ gate[c].pc = "idle" /\ rec[c].pc = "idle"
  /\ \A d \in Calls : d < c => gate[d].pc # "idle"
  /\ LET g == [gate[c] EXCEPT !.commandPath = commandPath] IN
     IF ~didRunDoctorConfigFlow /\ shouldMigrateStateFromPath(commandPath)
     THEN /\ didRunDoctorConfigFlow' = TRUE
          /\ doctorRuns' = Append(doctorRuns, DoctorCall(c))
          /\ gate' = [gate EXCEPT ![c] = [g EXCEPT !.pc = "doctor"]]
          /\ UNCHANGED <<reads, configSnapshotPromise>>
     ELSE /\ GetConfigSnapshot(c, g)
          /\ UNCHANGED <<didRunDoctorConfigFlow, doctorRuns>>
  /\ UNCHANGED <<files, findResult, rec, testMode, auth, enumerated, guard, exitCode>>

\* config-guard.ts:47-53, the migration flow completes
DoctorDone(c) ==
  /\ Running
  /\ gate[c].pc = "doctor"
  /\ GetConfigSnapshot(c, gate[c])
  /\ UNCHANGED <<files, findResult, rec, testMode, auth, enumerated, guard, didRunDoctorConfigFlow, doctorRuns,
                 exitCode>>

\* config-guard.ts:47, the migration flow throws and ensureConfigReady rejects
DoctorFailed(c) ==
  /\ Running
  /\ gate[c].pc = "doctor"
  /\ gate' = [gate EXCEPT ![c].pc = "rejected"]
  /\ UNCHANGED <<files, findResult, rec, testMode, auth, enumerated, guard, didRunDoctorConfigFlow, doctorRuns,
                 configSnapshotPromise, reads, exitCode>>

\* a pending readConfigFileSnapshot call settles with the file as it is now
ReaderFulfil(n, legacy) ==
  /\ Running
  /\ n \in 1..Len(reads) /\ reads[n].state = "pending"
  /\ reads' = [reads EXCEPT ![n] = [state |-> "fulfilled",
                                    snapshot |-> readConfigFileSnapshot(files, legacy)]]
  /\ UNCHANGED <<files, findResult, rec, gate, testMode, auth, enumerated, guard, didRunDoctorConfigFlow,
                 doctorRuns, configSnapshotPromise, exitCode>>

\* a pending readConfigFileSnapshot call rejects
ReaderReject(n) ==
  /\ Running
  /\ n \in 1..Len(reads) /\ reads[n].state = "pending"
  /\ reads' = [reads EXCEPT ![n].state = "rejected"]
  /\ UNCHANGED <<files, findResult, rec, gate, testMode, auth, enumerated, guard, didRunDoctorConfigFlow,
                 doctorRuns, configSnapshotPromise, exitCode>>

\* a failed read is dropped from the cache
SnapshotRejectedClearsCache(c) ==
  /\ Running
  /\ gate[c].pc = "snapshot" /\ reads[gate[c].awaiting].state = "rejected"
  /\ gate' = [gate EXCEPT ![c].pc = "rejected"]
  /\ configSnapshotPromise' = 0
  /\ UNCHANGED <<files, findResult, rec, testMode, auth, enumerated, guard,
                 didRunDoctorConfigFlow, doctorRuns, reads, exitCode>>

\* config-guard.ts:53, the awaited read rejected: ensureConfigReady rejects
SnapshotRejected(c) ==
  /\ Running
  /\ gate[c].pc = "snapshot" /\ reads[gate[c].awaiting].state = "rejected"
  /\ gate' = [gate EXCEPT ![c].pc = "rejected"]
  /\ UNCHANGED <<files, findResult, rec, testMode, auth, enumerated, guard, didRunDoctorConfigFlow, doctorRuns,
                 configSnapshotPromise, reads, exitCode>>

\* config-guard.ts:53-71, the snapshot is there and is not invalid: return
SnapshotUsable(c) ==
  /\ Running
  /\ gate[c].pc = "snapshot" /\ reads[gate[c].awaiting].state = "fulfilled"
  /\ LET snapshot == reads[gate[c].awaiting].snapshot IN
     /\ ~IsInvalid(snapshot)
     /\ gate' = [gate EXCEPT ![c] = [gate[c] EXCEPT !.pc = "returned",
                                                    !.snapshot = snapshot]]
  /\ UNCHANGED <<files, findResult, rec, testMode, auth, enumerated, guard, didRunDoctorConfigFlow, doctorRuns,
                 configSnapshotPromise, reads, exitCode>>

\* config-guard.ts:53-74, the snapshot is invalid: tryRecoverConfigFromBackup
\* is called and runs up to its first await (or to its return)
SnapshotInvalid(c) ==
  /\ Running
  /\ gate[c].pc = "snapshot" /\ reads[gate[c].awaiting].state = "fulfilled"
  /\ LET snapshot == reads[gate[c].awaiting].snapshot IN
     /\ IsInvalid(snapshot)
     /\ Advance(c, [gate[c] EXCEPT !.pc = "recovering", !.snapshot = snapshot],
                [IdleRec EXCEPT !.before = files], 1, files)
  /\ UNCHANGED <<files, findResult, testMode, auth, enumerated, guard, didRunDoctorConfigFlow, doctorRuns, reads>>

GateSteps(c) ==
  \/ DoctorDone(c) \/ DoctorFailed(c)
  \/ SnapshotRejected(c) \/ SnapshotUsable(c) \/ SnapshotInvalid(c)

Reader(legacyKeys) ==
  \E n \in 1..Len(reads) :
    \/ \E legacy \in legacyKeys : ReaderFulfil(n, legacy)
    \/ ReaderReject(n)

\* ------------------------------------------------- write-integrity guard
\* A JavaScript value as the guard sees it: what kind of value it is and, for
\* an object, its own keys in insertion order, each with the length of the
\* JSON text of its value.
Undefined == [kind |-> "undefined", entries |-> <<>>]

\* write-guard: typeof value === "object", not null, not an array
isPlainObject(value) == value.kind = "object"

\* the vocabulary without its last member
CriticalKeysWithoutCommands ==
  <<"agents", "gateway", "models", "channels", "auth", "plugins", "tools",
    "skills", "session", "messages">>

\* the Set literal, in its iteration order
CRITICAL_TOP_LEVEL_KEYS ==
  <<"agents", "gateway", "models", "channels", "auth", "plugins", "tools",
    "skills", "session", "messages", "commands">>

Range(s) == {s[n] : n \in DOMAIN s}

\* Object.keys(value)
ObjectKeys(value) == [n \in 1..Len(value.entries) |-> value.entries[n].key]

\* JSON.stringify(value).length for a plain object: the braces, and for every
\* entry the quoted key, the colon and the value, with commas in between
RECURSIVE EntriesLength(_)
EntriesLength(entries) ==
  IF Len(entries) = 0 THEN 0
  ELSE Len(entries[1].key) + 3 + entries[1].size
       + (IF Len(entries) > 1 THEN 1 ELSE 0) + EntriesLength(Tail(entries))
JsonStringifyLength(value) == 2 + EntriesLength(value.entries)

SourceLabel(options) ==
  IF options.source # "" THEN " (source: " \o options.source \o ")" ELSE ""

\* guard 1: the critical keys the write would remove, in vocabulary order
DroppedCriticalViolation(current, proposed, options) ==
  LET currentKeys == Range(ObjectKeys(current))
      proposedKeys == Range(ObjectKeys(proposed))
      droppedCritical ==
        SelectSeq(CRITICAL_TOP_LEVEL_KEYS,
                  LAMBDA key : key \in currentKeys /\ key \notin proposedKeys)
  IN IF Len(droppedCritical) > 0
     THEN << [code |-> "dropped-critical-keys",
              message |-> "Config write would remove critical top-level keys: "
                          \o Join(droppedCritical, ", ") \o SourceLabel(options) \o ". "
                          \o "Use config.patch for partial updates instead of replacing the entire config.",
              details |-> [droppedKeys |-> droppedCritical]] >>
     ELSE <<>>

\* the ratio 0.4 itself counts as a loss
KeyLossViolationAtRatio(current, proposed, options) ==
  LET currentKeys == ObjectKeys(current)
      proposedKeys == Range(ObjectKeys(proposed))
      size == Len(currentKeys)
      retained == Len(SelectSeq(currentKeys, LAMBDA key : key \in proposedKeys))
  IN IF size >= 3 /\ 5 * retained <= 2 * size
     THEN << [code |-> "excessive-key-loss",
              message |-> "Config write would drop " \o ToString(size - retained) \o " of "
                          \o ToString(size) \o " top-level keys" \o SourceLabel(options) \o ". "
                          \o "This looks like an accidental overwrite. Use config.patch for partial updates.",
              details |-> [currentKeyCount |-> size, retainedKeyCount |-> retained,
                           retentionRatio |-> <<retained, size>>]] >>
     ELSE <<>>

\* guard 2. retentionRatio is the quotient retained / size, kept as the pair
\* <<retained, size>>; the double 0.4 is the double of 2 / 5 and division is
\* correctly rounded, so retained / size < 0.4 is 5 * retained < 2 * size
KeyLossViolation(current, proposed, options) ==
  LET currentKeys == ObjectKeys(current)
      proposedKeys == Range(ObjectKeys(proposed))
      size == Len(currentKeys)
      retained == Len(SelectSeq(currentKeys, LAMBDA key : key \in proposedKeys))
  IN IF size >= 3 /\ 5 * retained < 2 * size
     THEN << [code |-> "excessive-key-loss",
              message |-> "Config write would drop " \o ToString(size - retained) \o " of "
                          \o ToString(size) \o " top-level keys" \o SourceLabel(options) \o ". "
                          \o "This looks like an accidental overwrite. Use config.patch for partial updates.",
              details |-> [currentKeyCount |-> size, retainedKeyCount |-> retained,
                           retentionRatio |-> <<retained, size>>]] >>
     ELSE <<>>

\* a config of exactly 512 characters is still too small to judge
SizeDropViolationAbove512(current, proposed, options) ==
  LET currentJson == JsonStringifyLength(current)
      proposedJson == JsonStringifyLength(proposed)
  IN IF currentJson > 512 /\ 10 * proposedJson < 3 * currentJson
     THEN << [code |-> "excessive-size-drop",
              message |-> "Config write would shrink config from " \o ToString(currentJson)
                          \o " to " \o ToString(proposedJson) \o " bytes"
                          \o SourceLabel(options) \o ". "
                          \o "This looks like an accidental overwrite.",
              details |-> [previousSize |-> currentJson, proposedSize |-> proposedJson]] >>
     ELSE <<>>

\* guard 3. The double 0.3 lies below 3 / 10 and the product is rounded to
\* nearest, so for whole lengths p < c * 0.3 is 10 * p < 3 * c
SizeDropViolation(current, proposed, options) ==
  LET currentJson == JsonStringifyLength(current)
      proposedJson == JsonStringifyLength(proposed)
  IN IF currentJson >= 512 /\ 10 * proposedJson < 3 * currentJson
     THEN << [code |-> "excessive-size-drop",
              message |-> "Config write would shrink config from " \o ToString(currentJson)
                          \o " to " \o ToString(proposedJson) \o " bytes"
                          \o SourceLabel(options) \o ". "
                          \o "This looks like an accidental overwrite.",
              details |-> [previousSize |-> currentJson, proposedSize |-> proposedJson]] >>
     ELSE <<>>

\* the first guard that fires ends the check
ViolationsFirstOnly(current, proposed, options) ==
  IF DroppedCriticalViolation(current, proposed, options) # <<>>
  THEN DroppedCriticalViolation(current, proposed, options)
  ELSE IF KeyLossViolation(current, proposed, options) # <<>>
  THEN KeyLossViolation(current, proposed, options)
  ELSE SizeDropViolation(current, proposed, options)

\* the three pushes onto violations, in program order
Violations(current, proposed, options) ==
  DroppedCriticalViolation(current, proposed, options)
  \o KeyLossViolation(current, proposed, options)
  \o SizeDropViolation(current, proposed, options)

\* the reserved key is reported like any other
WarningsWithMeta(current, proposed) ==
  LET proposedKeys == Range(ObjectKeys(proposed))
      droppedNonCritical ==
        SelectSeq(ObjectKeys(current),
                  LAMBDA key : /\ key \notin Range(CRITICAL_TOP_LEVEL_KEYS)
                               /\ key \notin proposedKeys)
  IN IF Len(droppedNonCritical) > 0
     THEN << "Config write will remove non-critical keys: "
             \o Join(droppedNonCritical, ", ") >>
     ELSE <<>>

\* the soft warnings
Warnings(current, proposed) ==
  LET proposedKeys == Range(ObjectKeys(proposed))
      droppedNonCritical ==
        SelectSeq(ObjectKeys(current),
                  LAMBDA key : /\ key \notin Range(CRITICAL_TOP_LEVEL_KEYS)
                               /\ key \notin proposedKeys
                               /\ key # "meta")
  IN IF Len(droppedNonCritical) > 0
     THEN << "Config write will remove non-critical keys: "
             \o Join(droppedNonCritical, ", ") >>
     ELSE <<>>

\* only the override is honoured
ShortCircuitOnForceOnly(current, proposed, options) == options.force

\* the two early returns
ShortCircuit(current, proposed, options) ==
  \/ options.force
  \/ ~isPlainObject(current) \/ ~isPlainObject(proposed)

\* a warning makes the result unsafe
validateConfigWriteIntegrityBlocksOnWarnings(current, proposed, options) ==
  IF ShortCircuit(current, proposed, options)
  THEN [safe |-> TRUE, violations |-> <<>>, warnings |-> <<>>]
  ELSE LET violations == Violations(current, proposed, options)
       IN [safe |-> Len(violations) = 0 /\ Len(Warnings(current, proposed)) = 0,
           violations |-> violations,
           warnings |-> Warnings(current, proposed)]

\* The result; the safe variant has no violations field, which is the empty
\* list here.
validateConfigWriteIntegrity(current, proposed, options) ==
  IF ShortCircuit(current, proposed, options)
  THEN [safe |-> TRUE, violations |-> <<>>, warnings |-> <<>>]
  ELSE LET violations == Violations(current, proposed, options)
       IN [safe |-> Len(violations) = 0,
           violations |-> violations,
           warnings |-> Warnings(current, proposed)]

\* one violation is rendered like several
formatWriteGuardErrorAlwaysCounts(violations) ==
  IF Len(violations) = 0 THEN <<"">>
  ELSE <<"Config write blocked (" \o ToString(Len(violations)) \o " violations):">>
       \o [n \in 1..Len(violations) |-> "- " \o violations[n].message]

\* The returned string, as the sequence of its lines (the text between the
\* "\n" separators; the empty string is one empty line).
formatWriteGuardError(violations) ==
  IF Len(violations) = 0 THEN <<"">>
  ELSE IF Len(violations) = 1
  THEN <<"Config write blocked: " \o violations[1].message>>
  ELSE <<"Config write blocked (" \o ToString(Len(violations)) \o " violations):">>
       \o [n \in 1..Len(violations) |-> "- " \o violations[n].message]

NoOptions == [force |-> FALSE, source |-> ""]
NoGuardResult == [safe |-> TRUE, violations |-> <<>>, warnings |-> <<>>]
IdleGuard ==
  [pc |-> "idle", current |-> Undefined, proposed |-> Undefined,
   options |-> NoOptions, result |-> NoGuardResult,
   formatted |-> <<>>, text |-> <<>>]

\* a config-persisting command checks the write it is about to make
ValidateWrite ==
  /\ guard.pc = "ready"
  /\ guard' = [guard EXCEPT
                 !.pc = "validated",
                 !.result = validateConfigWriteIntegrity(guard.current, guard.proposed,
                                                         guard.options)]
  /\ UNCHANGED <<files, findResult, rec, gate, testMode, auth, enumerated, didRunDoctorConfigFlow,
                 doctorRuns, configSnapshotPromise, reads, exitCode>>

\* the lists a caller can build from the violations of a result
RECURSIVE ListsOver(_)
ListsOver(S) ==
  {<<>>} \cup UNION {{<<v>> \o rest : rest \in ListsOver(S \ {v})} : v \in S}

\* ... and renders violations of it
FormatError ==
  /\ guard.pc = "validated"
  /\ \E violations \in ListsOver(Range(guard.result.violations)) :
       guard' = [guard EXCEPT !.pc = "formatted",
                              !.formatted = violations,
                              !.text = formatWriteGuardError(violations)]
  /\ UNCHANGED <<files, findResult, rec, gate, testMode, auth, enumerated, didRunDoctorConfigFlow,
                 doctorRuns, configSnapshotPromise, reads, exitCode>>

\* --------------------------------------------------- Ollama auth choice
OLLAMA_DEFAULT_BASE_URL == "http://127.0.0.1:11434"
OLLAMA_DEFAULT_CONTEXT_WINDOW == 128000
OLLAMA_DEFAULT_MAX_TOKENS == 8192
OLLAMA_DEFAULT_COST == [input |-> 0, output |-> 0, cacheRead |-> 0, cacheWrite |-> 0]
OLLAMA_DEFAULT_API_KEY == "ollama-local"
MANUAL_MODEL_OPTION == "__manual_model__"

\* String.prototype.trim on the texts a prompter or a server hands over
Trim(raw) ==
  CASE raw = " qwen3:8b " -> "qwen3:8b"
    [] raw = " sk-local " -> "sk-local"
    [] raw = "   " -> ""
    [] OTHER -> raw

\* ollama-setup.ts:30-34: trim, drop trailing slashes, drop a final /v1, and
\* fall back to the default when nothing is left
normalizeOllamaBaseUrl(raw) ==
  LET withoutV1 ==
        CASE raw = "http://gpu:11434/v1/" -> "http://gpu:11434"
          [] raw = " http://gpu:11434/ " -> "http://gpu:11434"
          [] raw = "/V1" -> ""
          [] raw = "   " -> ""
          [] OTHER -> raw
  IN IF withoutV1 # "" THEN withoutV1 ELSE OLLAMA_DEFAULT_BASE_URL

\* ollama-setup.ts:56-65: trimmed names, blanks and repeats dropped
RECURSIVE DistinctNames(_, _)
DistinctNames(names, seen) ==
  IF Len(names) = 0 THEN <<>>
  ELSE LET name == Trim(names[1]) IN
       IF name = "" \/ name \in seen THEN DistinctNames(Tail(names), seen)
       ELSE <<name>> \o DistinctNames(Tail(names), seen \cup {name})

\* ollama-setup.ts:43-74 on the outcome of the fetch of /api/tags
discoverOllamaModelIds(response) ==
  IF response.kind = "threw"
  THEN [modelIds |-> <<>>, error |-> response.message]
  ELSE IF ~response.ok
  THEN [modelIds |-> <<>>, error |-> "HTTP " \o ToString(response.status)]
  ELSE LET modelIds == DistinctNames(response.names, {}) IN
       IF Len(modelIds) = 0
       THEN [modelIds |-> <<>>, error |-> "No models found via /api/tags"]
       ELSE [modelIds |-> modelIds, error |-> ""]

\* a config as this flow sees it: the models section (mode, the other
\* providers, the ollama provider) and agents.defaults.model
NoProvider == [baseUrl |-> "", api |-> "", apiKey |-> "", models |-> <<>>]
NoModel == [kind |-> "undefined", primary |-> "", hasFallbacks |-> FALSE, fallbacks |-> <<>>]

\* ollama-setup.ts:152-177
NextConfig(cfg, baseUrl, modelId) ==
  [cfg EXCEPT
     !.models.mode = IF cfg.models.mode # "" THEN cfg.models.mode ELSE "merge",
     !.models.ollama =
        [baseUrl |-> baseUrl, api |-> "ollama", apiKey |-> "OLLAMA_API_KEY",
         models |-> << [id |-> modelId, name |-> modelId, reasoning |-> FALSE,
                        input |-> <<"text">>, cost |-> OLLAMA_DEFAULT_COST,
                        contextWindow |-> OLLAMA_DEFAULT_CONTEXT_WINDOW,
                        maxTokens |-> OLLAMA_DEFAULT_MAX_TOKENS] >>]]

\* part_001:5-25: the new primary, with the fallbacks of an existing model
\* object that has any
applyOllamaDefaultModel(cfg, modelRef) ==
  LET existingModel == cfg.defaultModel
      keep == /\ existingModel.kind = "object"
              /\ existingModel.hasFallbacks
  IN [cfg EXCEPT !.defaultModel =
        [kind |-> "object", primary |-> modelRef, hasFallbacks |-> keep,
         fallbacks |-> IF keep THEN existingModel.fallbacks ELSE <<>>]]

NoConfig == [models |-> [mode |-> "", providers |-> {}, ollama |-> NoProvider],
             defaultModel |-> NoModel]
\* null, or { config, agentModelOverride? }
Null == [isNull |-> TRUE, config |-> NoConfig, agentModelOverride |-> ""]
IdleAuth ==
  [pc |-> "idle",
   params |-> [authChoice |-> "", config |-> NoConfig, setDefaultModel |-> FALSE,
               agentDir |-> ""],
   setupCalls |-> <<>>, prompts |-> <<>>, upserts |-> <<>>,
   baseUrl |-> "", apiKey |-> "", modelId |-> "", nextConfig |-> NoConfig,
   result |-> Null]

AuthUnchanged ==
  UNCHANGED <<files, findResult, rec, gate, testMode, didRunDoctorConfigFlow, doctorRuns,
              configSnapshotPromise, reads, exitCode, guard, enumerated>>

\* a prompter call, as the prompter sees it
Prompt(fn, message) == [fn |-> fn, message |-> message]

\* ollama-setup.ts:90: promptAndConfigureOllama starts with the base URL prompt
StartSetup(a) ==
  [a EXCEPT !.pc = "baseUrl",
            !.setupCalls = Append(@, [cfg |-> a.params.config,
                                      agentDir |-> a.params.agentDir]),
            !.prompts = Append(@, Prompt("text", "Ollama base URL"))]

\* the guard on authChoice is missing
applyAuthChoiceOllamaUnguarded ==
  /\ auth.pc = "called"
  /\ auth' = StartSetup(auth)
  /\ AuthUnchanged

\* part_001:27-37: applyAuthChoiceOllama up to its first await
applyAuthChoiceOllama ==
  /\ auth.pc = "called"
  /\ auth' = IF auth.params.authChoice # "ollama"
             THEN [auth EXCEPT !.pc = "returned", !.result = Null]
             ELSE StartSetup(auth)
  /\ AuthUnchanged

\* ollama-setup.ts:90-115: the base URL is entered, the API key is asked for
BaseUrlEntered(baseUrlRaw) ==
  /\ auth.pc = "baseUrl"
  /\ auth' = [auth EXCEPT !.pc = "apiKey",
                          !.baseUrl = baseUrlRaw,
                          !.prompts = Append(@, Prompt("text", "Ollama API key"))]
  /\ AuthUnchanged

\* ollama-setup.ts:117-121: both answers are normalised, discovery starts
ApiKeyEntered(apiKeyRaw) ==
  /\ auth.pc = "apiKey"
  /\ auth' = [auth EXCEPT !.pc = "discover",
                          !.baseUrl = normalizeOllamaBaseUrl(auth.baseUrl),
                          !.apiKey = Trim(apiKeyRaw)]
  /\ AuthUnchanged

\* ollama-setup.ts:146-150, the auth profile is written
UpsertCall(a, modelId) ==
  [a EXCEPT !.pc = "upsert", !.modelId = modelId,
            !.upserts = Append(@, [profileId |-> "ollama:default",
                                   credential |-> [type |-> "api_key", provider |-> "ollama",
                                                   key |-> a.apiKey],
                                   agentDir |-> a.params.agentDir])]

\* ollama-setup.ts:76-81
ManualPrompt(a) ==
  [a EXCEPT !.pc = "manual", !.prompts = Append(@, Prompt("text", "Ollama model ID"))]

\* ollama-setup.ts:121-141: with models a selection is offered, without any a
\* note explains why the model has to be typed
Discovered(response) ==
  /\ auth.pc = "discover"
  /\ LET discovered == discoverOllamaModelIds(response) IN
     auth' = IF Len(discovered.modelIds) > 0
             THEN [auth EXCEPT !.pc = "select",
                               !.prompts = Append(@, Prompt("select", "Select Ollama model"))]
             ELSE [auth EXCEPT
                     !.pc = "discoveryNote",
                     !.prompts =
                        Append(@, Prompt("note",
                          "Could not auto-discover Ollama models from " \o auth.baseUrl
                          \o (IF discovered.error # "" THEN " (" \o discovered.error \o ")"
                              ELSE "")
                          \o ". Enter a model ID manually."))]
  /\ AuthUnchanged

\* ollama-setup.ts:131-134
Selected(selected) ==
  /\ auth.pc = "select"
  /\ auth' = IF selected = MANUAL_MODEL_OPTION THEN ManualPrompt(auth)
             ELSE UpsertCall(auth, Trim(selected))
  /\ AuthUnchanged

\* ollama-setup.ts:141
DiscoveryNoteShown ==
  /\ auth.pc = "discoveryNote"
  /\ auth' = ManualPrompt(auth)
  /\ AuthUnchanged

\* ollama-setup.ts:82
ManualEntered(modelIdRaw) ==
  /\ auth.pc = "manual"
  /\ auth' = UpsertCall(auth, Trim(modelIdRaw))
  /\ AuthUnchanged

\* ollama-setup.ts:152-179 and part_001:39-44: the setup returns; without
\* setDefaultModel so does applyAuthChoiceOllama, with it the note is shown
SetupDone ==
  /\ auth.pc = "upsert"
  /\ LET nextConfig == NextConfig(auth.params.config, auth.baseUrl, auth.modelId)
         modelRef == "ollama/" \o auth.modelId
     IN auth' = IF ~auth.params.setDefaultModel
                THEN [auth EXCEPT !.pc = "returned", !.nextConfig = nextConfig,
                                  !.result = [isNull |-> FALSE, config |-> nextConfig,
                                              agentModelOverride |-> modelRef]]
                ELSE [auth EXCEPT
                        !.pc = "defaultNote", !.nextConfig = nextConfig,
                        !.prompts = Append(@, Prompt("note",
                                                     "Default model set to " \o modelRef))]
  /\ AuthUnchanged

\* part_001:45
DefaultNoteShown ==
  /\ auth.pc = "defaultNote"
  /\ auth' = [auth EXCEPT
                !.pc = "returned",
                !.result = [isNull |-> FALSE,
                            config |-> applyOllamaDefaultModel(auth.nextConfig,
                                                               "ollama/" \o auth.modelId),
                            agentModelOverride |-> ""]]
  /\ AuthUnchanged

\* a prompter call or the profile write throws: no catch, the call rejects
AuthRejected ==
  /\ auth.pc \in {"baseUrl", "apiKey", "select", "discoveryNote", "manual", "upsert",
                  "defaultNote"}
  /\ auth' = [auth EXCEPT !.pc = "rejected"]
  /\ AuthUnchanged

\* ------------------------------------------------- enumerator, called alone
MaxEnumerations == 4

\* recovery.ts:26 and 61: a call of buildBackupCandidates(configPath)
CallBuildBackupCandidates(configPath) ==
  /\ Len(enumerated) < MaxEnumerations
  /\ enumerated' = Append(enumerated, [configPath |-> configPath,
                                       candidates |-> buildBackupCandidates(configPath)])
  /\ UNCHANGED <<files, findResult, rec, gate, testMode, didRunDoctorConfigFlow, doctorRuns,
                 configSnapshotPromise, reads, exitCode, guard, auth>>

\* ------------------------------------------------------- initial states
SlotFiles == {Absent, Unreadable, File(TextGarbage), File(TextBadShape),
              File(TextA), File(TextB)}
PrimaryFiles == {Absent, File(TextCorrupt), File(TextA)}
BrokenPrimaryFiles == {Absent, File(TextCorrupt)}
QuarantineFiles == {Absent, File(TextStale)}

FileSystems ==
  {f \in [Paths -> SlotFiles \cup PrimaryFiles \cup QuarantineFiles] :
     /\ f[ConfigPath] \in PrimaryFiles
     /\ f[CorruptedPath(ConfigPath)] \in QuarantineFiles
     /\ \A p \in BackupPaths : f[p] \in SlotFiles}

InitProcess ==
  /\ findResult = NoFind
  /\ rec = [c \in Calls |-> IdleRec]
  /\ gate = [c \in Calls |-> IdleGate]
  /\ didRunDoctorConfigFlow = FALSE
  /\ doctorRuns = <<>>
  /\ configSnapshotPromise = 0
  /\ reads = <<>>
  /\ exitCode = 0
  /\ guard = IdleGuard
  /\ auth = IdleAuth
  /\ enumerated = <<>>

\* one command of each kind: migrating or not, allowlisted or not
SomeCommandPaths == {<<>>, <<"status">>, <<"agent">>}

\* a primary of any kind, a backup of any kind in the most recent slot
SomeFileSystems ==
  {f \in FileSystems :
     /\ f[CorruptedPath(ConfigPath)] = Absent
     /\ \A k \in 1..CONFIG_BACKUP_COUNT :
          LET slot == f[buildBackupCandidates(ConfigPath)[k].path] IN
          IF k = 1 THEN slot \in {Absent, File(TextGarbage), File(TextB)}
          ELSE slot = Absent}

\* the startup gate, invoked MaxCalls times in one process, the invocations
\* overlapping at their awaits
Init ==
  /\ files \in SomeFileSystems
  /\ testMode \in BOOLEAN
  /\ InitProcess
Next ==
  \/ \E c \in Calls :
       \/ \E commandPath \in SomeCommandPaths : Invoke(c, commandPath)
       \/ GateSteps(c) \/ Engine(c)
  \/ Reader({FALSE})
Spec == Init /\ [][Next]_vars

\* the startup gate as the dispatcher uses it: one invocation per process,
\* with any command path
InitDispatch ==
  /\ files \in {f \in FileSystems :
                  /\ f[CorruptedPath(ConfigPath)] = Absent
                  /\ \A p \in BackupPaths :
                       f[p] \in {Absent, File(TextGarbage), File(TextB)}}
  /\ testMode \in BOOLEAN
  /\ InitProcess
NextDispatch ==
  \/ \E commandPath \in CommandPaths : Invoke(1, commandPath)
  \/ GateSteps(1) \/ Engine(1) \/ Reader(BOOLEAN)
SpecDispatch == InitDispatch /\ [][NextDispatch]_vars

\* the recovery engine called directly, one call after the other
InitEngine ==
  /\ files \in {f \in FileSystems : f[ConfigPath] \in BrokenPrimaryFiles}
  /\ testMode = FALSE
  /\ InitProcess
NextEngine == \E c \in Calls : CallRecover(c) \/ Engine(c)
SpecEngine == InitEngine /\ [][NextEngine]_vars

\* the read-only lookup
NextFind == CallFindValidBackup
SpecFind == InitEngine /\ [][NextFind]_vars

\* the write guard's inputs. Keys are laid out in one order; the bulk of a
\* config's text sits under "gateway", every other value is "{}".
KeyOrder ==
  <<"meta", "agents", "gateway", "models", "channels", "auth", "plugins", "tools",
    "skills", "session", "messages", "commands", "ui", "wizard">>
PlainObject(keys, bulk) ==
  LET ks == SelectSeq(KeyOrder, LAMBDA key : key \in keys)
  IN [kind |-> "object",
      entries |-> [n \in 1..Len(ks) |->
                     [key |-> ks[n], size |-> IF ks[n] = "gateway" THEN bulk ELSE 2]]]
\* null, undefined, an array, a primitive
NonPlainValues ==
  {[kind |-> k, entries |-> <<>>] : k \in {"null", "undefined", "array", "primitive"}}

CriticalKeySets ==
  SUBSET {"agents", "gateway", "models", "channels"}
  \cup SUBSET {"auth", "plugins", "tools", "skills"}
  \cup SUBSET {"session", "messages", "commands"}
SevenKeys == {"agents", "gateway", "models", "channels", "auth", "plugins", "tools"}
CurrentKeySets ==
  {S \cup E : S \in CriticalKeySets, E \in SUBSET {"meta", "ui", "wizard"}}
  \cup {SevenKeys \cup E : E \in SUBSET {"meta", "ui"}}
\* {"gateway": ...} alone is 12 characters longer than the value
CurrentBulk == {2, 499, 500}
ProposedBulk == {2, 141, 142, 144}
Bulks(keys, sizes) == IF "gateway" \in keys THEN sizes ELSE {2}

SomeObjects == {PlainObject(K, 2) : K \in SUBSET {"agents", "ui"}}
NonPlainWrites ==
  {[current |-> c, proposed |-> p] :
     c \in NonPlainValues, p \in NonPlainValues \cup SomeObjects}
  \cup {[current |-> c, proposed |-> p] : c \in SomeObjects, p \in NonPlainValues}
WriteOptions ==
  {NoOptions, [force |-> TRUE, source |-> ""], [force |-> FALSE, source |-> "config.apply"]}

ReadyGuard(current, proposed, options) ==
  [IdleGuard EXCEPT !.pc = "ready", !.current = current, !.proposed = proposed,
                    !.options = options]

\* one guarded write
InitGuard ==
  /\ files = [p \in Paths |-> Absent]
  /\ testMode = FALSE
  /\ findResult = NoFind
  /\ rec = [c \in Calls |-> IdleRec]
  /\ gate = [c \in Calls |-> IdleGate]
  /\ didRunDoctorConfigFlow = FALSE
  /\ doctorRuns = <<>>
  /\ configSnapshotPromise = 0
  /\ reads = <<>>
  /\ exitCode = 0
  /\ auth = IdleAuth
  /\ enumerated = <<>>
  /\ \E options \in WriteOptions :
       \/ \E K \in CurrentKeySets : \E P \in SUBSET K :
            \E b \in Bulks(K, CurrentBulk), pb \in Bulks(P, ProposedBulk) :
              guard = ReadyGuard(PlainObject(K, b), PlainObject(P, pb), options)
       \/ \E w \in NonPlainWrites :
            guard = ReadyGuard(w.current, w.proposed, options)
NextGuard == ValidateWrite \/ FormatError
SpecGuard == InitGuard /\ [][NextGuard]_vars

\* the auth choice flow: one call, with every answer a prompter and an Ollama
\* server can give
AuthChoices == {"ollama", "openai-api-key", "token"}
DefaultModels ==
  {NoModel,
   [kind |-> "string", primary |-> "openai/gpt-5.1", hasFallbacks |-> FALSE,
    fallbacks |-> <<>>],
   [kind |-> "object", primary |-> "openai/gpt-5.1", hasFallbacks |-> FALSE,
    fallbacks |-> <<>>],
   [kind |-> "object", primary |-> "openai/gpt-5.1", hasFallbacks |-> TRUE,
    fallbacks |-> <<"openai/gpt-5-nano">>]}
AuthConfigs ==
  {[models |-> [mode |-> mode, providers |-> providers, ollama |-> NoProvider],
    defaultModel |-> model] :
     mode \in {"", "replace"}, providers \in {{}, {"openai"}}, model \in DefaultModels}
BaseUrlAnswers == {OLLAMA_DEFAULT_BASE_URL, "http://gpu:11434/v1/", "   "}
ApiKeyAnswers == {OLLAMA_DEFAULT_API_KEY, " sk-local "}
TagsResponses ==
  {[kind |-> "threw", message |-> "fetch failed", ok |-> FALSE, status |-> 0, names |-> <<>>],
   [kind |-> "response", message |-> "", ok |-> FALSE, status |-> 500, names |-> <<>>],
   [kind |-> "response", message |-> "", ok |-> TRUE, status |-> 200, names |-> <<"">>],
   [kind |-> "response", message |-> "", ok |-> TRUE, status |-> 200,
    names |-> <<"llama3.2:latest", " qwen3:8b ", "", "qwen3:8b">>]}
SelectAnswers == {"llama3.2:latest", "qwen3:8b", MANUAL_MODEL_OPTION}
ModelIdAnswers == {"llama3.2:latest", " qwen3:8b "}

InitAuth ==
  /\ files = [p \in Paths |-> Absent]
  /\ testMode = FALSE
  /\ findResult = NoFind
  /\ rec = [c \in Calls |-> IdleRec]
  /\ gate = [c \in Calls |-> IdleGate]
  /\ didRunDoctorConfigFlow = FALSE
  /\ doctorRuns = <<>>
  /\ configSnapshotPromise = 0
  /\ reads = <<>>
  /\ exitCode = 0
  /\ guard = IdleGuard
  /\ enumerated = <<>>
  /\ \E authChoice \in AuthChoices, config \in AuthConfigs, setDefaultModel \in BOOLEAN,
        agentDir \in {"", "/tmp/agent"} :
       auth = [IdleAuth EXCEPT
                 !.pc = "called",
                 !.params = [authChoice |-> authChoice, config |-> config,
                             setDefaultModel |-> setDefaultModel, agentDir |-> agentDir]]
NextAuth ==
  \/ applyAuthChoiceOllama
  \/ \E baseUrlRaw \in BaseUrlAnswers : BaseUrlEntered(baseUrlRaw)
  \/ \E apiKeyRaw \in ApiKeyAnswers : ApiKeyEntered(apiKeyRaw)
  \/ \E response \in TagsResponses : Discovered(response)
  \/ \E selected \in SelectAnswers : Selected(selected)
  \/ DiscoveryNoteShown
  \/ \E modelIdRaw \in ModelIdAnswers : ManualEntered(modelIdRaw)
  \/ SetupDone
  \/ DefaultNoteShown
  \/ AuthRejected
SpecAuth == InitAuth /\ [][NextAuth]_vars

\* the enumerator on several config paths, over several file systems
ConfigPaths == {ConfigPath, "/home/u/.openclaw/openclaw.json", "c.json5"}
InitEnumerate ==
  /\ files \in SomeFileSystems
  /\ testMode = FALSE
  /\ InitProcess
NextEnumerate == \E configPath \in ConfigPaths : CallBuildBackupCandidates(configPath)
SpecEnumerate == InitEnumerate /\ [][NextEnumerate]_vars

\* the lookup and one recovery call on the same files, in any order
NextFrame == CallFindValidBackup \/ CallRecover(1) \/ Engine(1)
SpecFrame == InitEngine /\ [][NextFrame]_vars

\* ================================================================== claims
SlotPath(k) == buildBackupCandidates(ConfigPath)[k].path
Slots == 1..CONFIG_BACKUP_COUNT
Min(S) == CHOOSE m \in S : \A x \in S : m <= x

\* what the files put on disk are: the two texts that are valid configs, and
\* the config each of them holds
GoodSlots(f) == {k \in Slots : f[SlotPath(k)] \in {File(TextA), File(TextB)}}
ExistingSlots(f) == {k \in Slots : f[SlotPath(k)].exists}
ConfigIn(file) ==
  IF file.text = TextA THEN "gateway.mode=local" ELSE "models.aliases.fast=test"

\* call c of the engine has returned and no later call has started
LastDone(c) ==
  /\ rec[c].pc = "done"
  /\ \A d \in Calls : d > c => rec[d].pc = "idle"

\* C1: findValidBackup returns the candidate of the lowest-indexed slot that
\* exists, reads, parses and validates; it returns null exactly when there is
\* no such slot; and it examines no slot after the first valid one.
C1_FindLowestValid ==
  findResult.called =>
    LET good == GoodSlots(files) IN
    /\ findResult.found <=> good # {}
    /\ good = {} => /\ findResult.candidate = NoCandidate
                    /\ findResult.probed = Slots
    /\ good # {} =>
         LET w == Min(good) IN
         /\ findResult.candidate.path = SlotPath(w)
         /\ findResult.candidate.config = ConfigIn(files[SlotPath(w)])
         /\ findResult.probed = 1..w
         /\ findResult.read \subseteq 1..w

\* .bak and .bak.1 exist and are unusable, .bak.2 is found
C1_Witness ==
  /\ findResult.called /\ findResult.found
  /\ findResult.candidate.label = ".bak.2"
  /\ files[SlotPath(1)] = File(TextGarbage)
  /\ files[SlotPath(2)] \in {Unreadable, File(TextBadShape)}

\* C2 as stated: a successful recovery always returns the lowest-indexed slot
\* that exists and validates, whatever the rename and copy operations do.
C2_LowestValidAlways ==
  \A c \in Calls :
    (rec[c].pc = "done" /\ rec[c].result.recovered) =>
      rec[c].result.candidate.path = SlotPath(Min(GoodSlots(rec[c].before)))

\* C2 amended: a successful recovery returns a slot that exists and validates,
\* and every existing-and-valid slot of smaller index is one whose quarantine
\* or restore step failed; the lowest one when no such step failed.
C2_LowestValidNotAbandoned ==
  \A c \in Calls :
    (rec[c].pc = "done" /\ rec[c].result.recovered) =>
      LET good == GoodSlots(rec[c].before)
          won == {k \in Slots : SlotPath(k) = rec[c].result.candidate.path}
      IN
      /\ won # {} /\ won \subseteq good
      /\ \A w \in won : \A k \in good : k < w => k \in rec[c].aborted
      /\ rec[c].aborted \subseteq good
      /\ rec[c].aborted = {} => won = {Min(good)}
      /\ rec[c].result.candidate.config
           = ConfigIn(rec[c].before[rec[c].result.candidate.path])

\* the restore from .bak failed, .bak.1 was restored
C2_Witness ==
  /\ rec[1].pc = "done" /\ rec[1].result.recovered
  /\ rec[1].aborted = {1}
  /\ rec[1].result.candidate.label = ".bak.1"

\* C3: after a successful recovery the primary holds the winning backup's
\* content, and the quarantine file holds what the primary held before the
\* call, if there was a primary.
C3_RestorationFaithful ==
  \A c \in Calls :
    (LastDone(c) /\ rec[c].result.recovered) =>
      /\ files[ConfigPath] = rec[c].before[rec[c].result.candidate.path]
      /\ rec[c].before[ConfigPath].exists =>
           files[CorruptedPath(ConfigPath)] = rec[c].before[ConfigPath]

\* a primary existed, an earlier candidate's attempt failed, a stale
\* quarantine file was in the way
C3_Witness ==
  \E c \in Calls :
    /\ LastDone(c) /\ rec[c].result.recovered
    /\ rec[c].before[ConfigPath] = File(TextCorrupt)
    /\ rec[c].before[CorruptedPath(ConfigPath)] = File(TextStale)
    /\ rec[c].aborted # {}

\* C4 as stated: a recovery that returns recovered=false has changed no file.
C4_FailureLeavesFilesUntouched ==
  \A c \in Calls :
    (LastDone(c) /\ ~rec[c].result.recovered) => files = rec[c].before

\* C5: backupsChecked is the number of existing slots on failure, and the
\* number of existing slots up to the winning one on success.
C5_BackupsCheckedExact ==
  \A c \in Calls :
    rec[c].pc = "done" =>
      LET existing == ExistingSlots(rec[c].before)
          won == {k \in Slots : SlotPath(k) = rec[c].result.candidate.path}
      IN
      IF rec[c].result.recovered
      THEN \A w \in won :
             rec[c].result.backupsChecked = Cardinality({k \in existing : k <= w})
      ELSE rec[c].result.backupsChecked = Cardinality(existing)

\* .bak is absent (not counted), .bak.1 is unusable (counted), .bak.2 wins
C5_Witness ==
  \E c \in Calls :
    /\ rec[c].pc = "done" /\ rec[c].result.recovered
    /\ rec[c].result.candidate.label = ".bak.2"
    /\ ~rec[c].before[SlotPath(1)].exists
    /\ rec[c].before[SlotPath(2)].exists
    /\ rec[c].result.backupsChecked = 2

\* C6: on failure the reason is "no backup files found" exactly when no slot
\* file exists (backupsChecked = 0) and "all backup files are invalid or
\* unreadable" exactly when backupsChecked > 0; with no backup the call fails.
C6_FailureReason ==
  \A c \in Calls :
    rec[c].pc = "done" =>
      LET none == ExistingSlots(rec[c].before) = {}
          result == rec[c].result
      IN
      /\ none => ~result.recovered
      /\ ~result.recovered =>
           /\ result.reason \in {"no backup files found",
                                 "all backup files are invalid or unreadable"}
           /\ result.reason = "no backup files found" <=> result.backupsChecked = 0
           /\ result.backupsChecked = 0 <=> none

\* backups exist and none is usable
C6_Witness ==
  \E c \in Calls :
    /\ rec[c].pc = "done" /\ ~rec[c].result.recovered
    /\ rec[c].result.backupsChecked = 2
    /\ rec[c].result.reason = "all backup files are invalid or unreadable"

\* C7: tryRecoverConfigFromBackup never throws; when it has returned, its
\* result is the success variant or the failure variant.
C7_NeverRaises ==
  \A c \in Calls :
    /\ rec[c].pc # "threw"
    /\ rec[c].pc = "done" =>
         \/ /\ rec[c].result.recovered
            /\ rec[c].result.candidate # NoCandidate
         \/ /\ ~rec[c].result.recovered
            /\ rec[c].result.reason # ""
            /\ rec[c].result.candidate = NoCandidate

\* an unreadable slot, a slot that fails to parse, and a failed restore
C7_Witness ==
  \E c \in Calls :
    /\ rec[c].pc = "done"
    /\ rec[c].aborted # {}
    /\ \E k \in Slots : rec[c].before[SlotPath(k)] = Unreadable
    /\ \E k \in Slots : rec[c].before[SlotPath(k)] = File(TextGarbage)

\* the snapshot invocation c of the gate has read, if it has read one
HasSnapshot(c) ==
  /\ gate[c].pc \in {"recovering", "returned", "exited", "rejected"}
  /\ gate[c].awaiting # 0
  /\ reads[gate[c].awaiting].state = "fulfilled"

\* C8: ensureConfigReady calls runtime.exit(1) exactly when the snapshot exists
\* and is invalid, the recovery failed and the command is not allowlisted: its
\* first element is a top-level diagnostic command, or it is "gateway" followed
\* by an allowed gateway subcommand.
C8_ExitIffUnrecoverableNotAllowlisted ==
  /\ exitCode = 1 <=> \E c \in Calls : gate[c].exitCalls = <<1>>
  /\ \A c \in Calls :
    LET g == gate[c]
        cmd == g.commandPath
        allowlisted ==
          /\ Len(cmd) >= 1
          /\ \/ cmd[1] \in {"doctor", "logs", "health", "help", "status"}
             \/ /\ cmd[1] = "gateway"
                /\ Len(cmd) >= 2
                /\ cmd[2] \in {"status", "probe", "health", "discover", "call", "install",
                               "uninstall", "start", "stop", "restart"}
        unrecoverable ==
          /\ HasSnapshot(c)
          /\ reads[g.awaiting].snapshot.exists /\ ~reads[g.awaiting].snapshot.valid
          /\ rec[c].pc = "done" /\ ~rec[c].result.recovered
    IN
    /\ g.exitCalls \in {<<>>, <<1>>}
    /\ g.exitCalls = <<1>> <=> (unrecoverable /\ ~allowlisted)

\* a bare "gateway" with an unrecoverable config: exit(1)
C8_Witness ==
  /\ gate[1].commandPath = <<"gateway">>
  /\ gate[1].exitCalls = <<1>>
  /\ rec[1].result.backupsChecked > 0

\* C9: with a snapshot that does not exist or is valid the gate returns: no
\* recovery attempt, no diagnostic output (legacy issues or not), no exit.
C9_UsableSnapshotReturnsSilently ==
  \A c \in Calls :
    (HasSnapshot(c) /\ (~reads[gate[c].awaiting].snapshot.exists
                        \/ reads[gate[c].awaiting].snapshot.valid)) =>
      /\ gate[c].pc = "returned"
      /\ rec[c] = IdleRec
      /\ gate[c].out = <<>>
      /\ gate[c].exitCalls = <<>>
      /\ exitCode = 0

\* a valid config with legacy keys, and a command that is not allowlisted
C9_Witness ==
  /\ gate[1].pc = "returned"
  /\ gate[1].snapshot.exists /\ gate[1].snapshot.valid
  /\ gate[1].snapshot.legacyIssues # <<>>
  /\ gate[1].commandPath = <<"agent">>

\* C10: when the recovery succeeds the gate resets the cached snapshot, returns
\* without exit whatever the command, and reads nothing again itself; and a
\* snapshot read that finds the cache reset calls the reader.
C10_RecoveryResetsCache ==
  [][\A c \in Calls :
       /\ (/\ gate[c].pc \in {"snapshot", "recovering"}
           /\ gate'[c].pc \notin {"snapshot", "recovering"}
           /\ rec'[c].pc = "done" /\ rec'[c].result.recovered)
          => /\ configSnapshotPromise' = 0
             /\ gate'[c].pc = "returned"
             /\ gate'[c].exitCalls = <<>>
             /\ exitCode' = exitCode
             /\ reads' = reads
       /\ (/\ configSnapshotPromise = 0
           /\ gate[c].pc \in {"idle", "doctor"}
           /\ gate'[c].pc = "snapshot")
          => /\ Len(reads') = Len(reads) + 1
             /\ reads'[Len(reads')].state = "pending"
             /\ gate'[c].awaiting = Len(reads')]_vars

\* outside test mode: a command that is not allowlisted returned after a
\* recovery, and the next invocation awaits a second call of the reader
C10_Witness ==
  \E c, d \in Calls :
    /\ ~testMode
    /\ gate[c].pc = "returned" /\ gate[c].recovery.recovered
    /\ gate[c].commandPath = <<>>
    /\ gate[d].pc = "snapshot" /\ gate[d].awaiting = 2
    /\ configSnapshotPromise = 2

\* C11: over any interleaving of ensureConfigReady invocations the migration
\* flow is started at most once, by the first invocation whose command path
\* triggers the migration, non-interactively and with confirm answering false;
\* a failed run is not repeated.
C11_MigrationAtMostOnce ==
  LET matching == {c \in Calls : gate[c].pc # "idle"
                                 /\ shouldMigrateStateFromPath(gate[c].commandPath)}
  IN
  /\ Len(doctorRuns) <= 1
  /\ doctorRuns = <<>> <=> matching = {}
  /\ \A n \in 1..Len(doctorRuns) :
       /\ doctorRuns[n].by = Min(matching)
       /\ doctorRuns[n].nonInteractive
       /\ ~doctorRuns[n].confirm
  /\ didRunDoctorConfigFlow <=> Len(doctorRuns) = 1

\* the flow of the first invocation failed; the second invocation, whose path
\* triggers the migration too, went on to the snapshot without a second run
C11_Witness ==
  /\ gate[1].pc = "rejected" /\ gate[1].awaiting = 0
  /\ gate[2].commandPath = <<>> /\ gate[2].pc = "snapshot"
  /\ Len(doctorRuns) = 1

\* C12: outside test mode the reader is called only when the cache is empty and
\* its promise is cached at once, so it is called at most once more than there
\* were successful recoveries; the cache is emptied only by a successful
\* recovery, and a failed recovery leaves it as it is.
C12_CacheLifecycle ==
  /\ [](~testMode =>
          Len(reads) <= 1 + Cardinality({c \in Calls : gate[c].recovery.recovered}))
  /\ [][~testMode =>
          /\ Len(reads') # Len(reads) =>
               /\ configSnapshotPromise = 0
               /\ Len(reads') = Len(reads) + 1
               /\ configSnapshotPromise' = Len(reads')
          /\ (configSnapshotPromise # 0 /\ configSnapshotPromise' # configSnapshotPromise) =>
               /\ configSnapshotPromise' = 0
               /\ \E c \in Calls : /\ rec[c].pc # "done" /\ rec'[c].pc = "done"
                                   /\ rec'[c].result.recovered
          /\ \A c \in Calls :
               (rec[c].pc # "done" /\ rec'[c].pc = "done" /\ ~rec'[c].result.recovered) =>
                 configSnapshotPromise' = configSnapshotPromise]_vars

\* two invocations overlap on the one pending read
C12_Witness ==
  /\ ~testMode
  /\ gate[1].pc = "snapshot" /\ gate[2].pc = "snapshot"
  /\ gate[1].awaiting = 1 /\ gate[2].awaiting = 1
  /\ Len(reads) = 1 /\ reads[1].state = "pending"

\* ------------------------------------------------------ write guard claims
\* the guard has returned
Checked == guard.pc \in {"validated", "formatted"}
\* ... and went past its two early returns
Evaluated ==
  /\ Checked
  /\ ~guard.options.force
  /\ guard.current.kind = "object" /\ guard.proposed.kind = "object"
KeysOf(value) == {value.entries[n].key : n \in DOMAIN value.entries}
CriticalVocabulary ==
  {"agents", "gateway", "models", "channels", "auth", "plugins", "tools", "skills",
   "session", "messages", "commands"}
ViolationsWith(code) ==
  {n \in DOMAIN guard.result.violations : guard.result.violations[n].code = code}

\* the conditions of the three heuristics, on the inputs of the call
DroppedCritical == (KeysOf(guard.current) \ KeysOf(guard.proposed)) \cap CriticalVocabulary
KeyCount == Cardinality(KeysOf(guard.current))
Retained == Cardinality(KeysOf(guard.current) \cap KeysOf(guard.proposed))
KeyLossHolds == KeyCount >= 3 /\ 5 * Retained < 2 * KeyCount
SizeDropHolds ==
  /\ JsonStringifyLength(guard.current) >= 512
  /\ 10 * JsonStringifyLength(guard.proposed) < 3 * JsonStringifyLength(guard.current)

\* C13: for plain mappings without force there is a dropped-critical-keys
\* violation exactly when some critical key is in current and not in proposed;
\* there is one such violation, and its droppedKeys are exactly those keys.
C13_DroppedCriticalKeys ==
  Evaluated =>
    LET hits == ViolationsWith("dropped-critical-keys") IN
    /\ hits # {} <=> DroppedCritical # {}
    /\ Cardinality(hits) <= 1
    /\ \A n \in hits :
         LET droppedKeys == guard.result.violations[n].details.droppedKeys IN
         /\ Range(droppedKeys) = DroppedCritical
         /\ Len(droppedKeys) = Cardinality(DroppedCritical)

\* three of four critical keys are dropped, the gateway is kept
C13_Witness ==
  /\ Evaluated
  /\ DroppedCritical = {"agents", "models", "channels"}
  /\ "gateway" \in KeysOf(guard.proposed)
  /\ ViolationsWith("dropped-critical-keys") # {}

\* C14: once the guard evaluates its heuristics there is an excessive-key-loss
\* violation exactly when current has at least 3 top-level keys and fewer than
\* 0.4 of them (all keys, "meta" too) are in proposed; 2 of 5 retained does not
\* trigger it, nor does a current of fewer than 3 keys.
C14_ExcessiveKeyLoss ==
  Evaluated =>
    LET hits == ViolationsWith("excessive-key-loss") IN
    /\ hits # {} <=> (KeyCount >= 3 /\ 5 * Retained < 2 * KeyCount)
    /\ (KeyCount = 5 /\ Retained = 2) => hits = {}
    /\ KeyCount < 3 => hits = {}
    /\ \A n \in hits :
         LET details == guard.result.violations[n].details IN
         /\ details.currentKeyCount = KeyCount
         /\ details.retainedKeyCount = Retained
         /\ details.retentionRatio = <<Retained, KeyCount>>

\* of three keys only "meta" is kept: without "meta" in the count, current
\* would be too small to be judged
C14_Witness ==
  /\ Evaluated
  /\ KeyCount = 3 /\ "meta" \in KeysOf(guard.current)
  /\ KeysOf(guard.proposed) = {"meta"}
  /\ ViolationsWith("excessive-key-loss") # {}

\* C15: once the guard evaluates its heuristics there is an excessive-size-drop
\* violation exactly when the JSON text of current has at least 512 characters
\* and that of proposed has strictly less than 30% of it; below 512 there is
\* none; the violation reports both sizes.
C15_ExcessiveSizeDrop ==
  Evaluated =>
    LET hits == ViolationsWith("excessive-size-drop")
        previous == JsonStringifyLength(guard.current)
        proposed == JsonStringifyLength(guard.proposed)
    IN
    /\ hits # {} <=> (previous >= 512 /\ 10 * proposed < 3 * previous)
    /\ previous < 512 => hits = {}
    /\ \A n \in hits :
         /\ guard.result.violations[n].details.previousSize = previous
         /\ guard.result.violations[n].details.proposedSize = proposed

\* a current of exactly 512 characters shrinks to 153
C15_Witness ==
  /\ Evaluated
  /\ JsonStringifyLength(guard.current) = 512
  /\ JsonStringifyLength(guard.proposed) = 153
  /\ ViolationsWith("excessive-size-drop") # {}

\* C16: with force, or with a current or a proposed that is null, absent, an
\* array or a primitive, the result is safe with no warnings, whatever the
\* other arguments are.
C16_ShortCircuitSafe ==
  (/\ Checked
   /\ \/ guard.options.force
      \/ guard.current.kind \in {"null", "undefined", "array", "primitive"}
      \/ guard.proposed.kind \in {"null", "undefined", "array", "primitive"}) =>
    /\ guard.result.safe
    /\ guard.result.violations = <<>>
    /\ guard.result.warnings = <<>>

\* a forced write that empties a config of seven critical keys and "ui"
C16_Witness ==
  /\ Checked
  /\ guard.options.force
  /\ KeysOf(guard.current) = SevenKeys \cup {"ui"}
  /\ guard.proposed = [kind |-> "object", entries |-> <<>>]
  /\ guard.result.safe

\* C17: the violations are those of the heuristics whose conditions hold, each
\* decided on its own, in the order dropped-critical-keys, excessive-key-loss,
\* excessive-size-drop.
C17_AllHeuristicsInOrder ==
  Evaluated =>
    LET Holds(code) ==
          IF code = "dropped-critical-keys" THEN DroppedCritical # {}
          ELSE IF code = "excessive-key-loss" THEN KeyLossHolds
          ELSE SizeDropHolds
        codes == [n \in DOMAIN guard.result.violations |-> guard.result.violations[n].code]
    IN codes = SelectSeq(<<"dropped-critical-keys", "excessive-key-loss",
                           "excessive-size-drop">>, Holds)

\* all three at once
C17_Witness ==
  /\ Evaluated
  /\ DroppedCritical # {} /\ KeyLossHolds /\ SizeDropHolds
  /\ Len(guard.result.violations) = 3

\* C18: once the guard evaluates its heuristics the warnings are one warning
\* naming the keys in current, absent from proposed, not critical and not
\* "meta", if there are any, and none otherwise; they come with safe and with
\* unsafe results, and the result is safe exactly when no heuristic fires.
C18_WarningsNeverBlock ==
  Evaluated =>
    LET dropped == (KeysOf(guard.current) \ KeysOf(guard.proposed))
                     \ (CriticalVocabulary \cup {"meta"})
        named == SelectSeq(ObjectKeys(guard.current), LAMBDA key : key \in dropped)
    IN
    /\ dropped = {} => guard.result.warnings = <<>>
    /\ dropped # {} =>
         guard.result.warnings =
           <<"Config write will remove non-critical keys: " \o Join(named, ", ")>>
    /\ guard.result.safe <=> (DroppedCritical = {} /\ ~KeyLossHolds /\ ~SizeDropHolds)

\* "meta", "ui" and "wizard" go, with a critical key: unsafe, with a warning
C18_Witness ==
  /\ Evaluated
  /\ {"meta", "ui", "wizard"} \subseteq KeysOf(guard.current) \ KeysOf(guard.proposed)
  /\ ~guard.result.safe
  /\ guard.result.warnings = <<"Config write will remove non-critical keys: ui, wizard">>

\* C19: formatWriteGuardError gives the empty string for no violation, one
\* line with the message and no count for one violation, and for n >= 2 a
\* header with the count n and then n lines, one per violation, in input order.
C19_FormatByCount ==
  guard.pc = "formatted" =>
    LET violations == guard.formatted
        n == Len(violations)
    IN
    /\ n = 0 => guard.text = <<"">>
    /\ n = 1 => guard.text = <<"Config write blocked: " \o violations[1].message>>
    /\ n >= 2 =>
         /\ Len(guard.text) = n + 1
         /\ guard.text[1] = "Config write blocked (" \o ToString(n) \o " violations):"
         /\ \A i \in 1..n : guard.text[i + 1] = "- " \o violations[i].message

\* three violations, handed over in the reverse of the guard's order
C19_Witness ==
  /\ guard.pc = "formatted"
  /\ Len(guard.formatted) = 3
  /\ guard.formatted[1].code = "excessive-size-drop"
  /\ guard.formatted[3].code = "dropped-critical-keys"
  /\ Len(guard.text) = 4

\* the config of invocation c is invalid and no backup restored it
Unrecoverable(c) ==
  /\ HasSnapshot(c)
  /\ reads[gate[c].awaiting].snapshot.exists /\ ~reads[gate[c].awaiting].snapshot.valid
  /\ rec[c].pc = "done" /\ ~rec[c].result.recovered

\* C20, as stated: with an unrecoverable config a gateway command proceeds
\* exactly when its subcommand is status, probe, health, discover, install,
\* uninstall, start, stop or restart.
C20_OnlyDiagnosticAndLifecycle ==
  \A c \in Calls :
    (Unrecoverable(c) /\ Len(gate[c].commandPath) >= 1
                      /\ gate[c].commandPath[1] = "gateway") =>
      LET proceeds ==
            /\ Len(gate[c].commandPath) >= 2
            /\ gate[c].commandPath[2] \in {"status", "probe", "health", "discover",
                                           "install", "uninstall", "start", "stop",
                                           "restart"}
      IN IF proceeds THEN gate[c].pc = "returned" /\ gate[c].exitCalls = <<>>
                     ELSE gate[c].pc = "exited" /\ gate[c].exitCalls = <<1>>

\* C20: with an unrecoverable config a gateway command proceeds exactly when
\* its subcommand is status, probe, health, discover, call, install,
\* uninstall, start, stop or restart; any other gateway command exits with 1.
C20_AllowedGatewaySubcommands ==
  \A c \in Calls :
    (Unrecoverable(c) /\ Len(gate[c].commandPath) >= 1
                      /\ gate[c].commandPath[1] = "gateway") =>
      LET proceeds ==
            /\ Len(gate[c].commandPath) >= 2
            /\ gate[c].commandPath[2] \in {"status", "probe", "health", "discover",
                                           "call", "install", "uninstall", "start",
                                           "stop", "restart"}
      IN IF proceeds THEN gate[c].pc = "returned" /\ gate[c].exitCalls = <<>> /\ exitCode = 0
                     ELSE gate[c].pc = "exited" /\ gate[c].exitCalls = <<1>> /\ exitCode = 1

\* "gateway call" with a config no backup could restore: the gate returns
C20_Witness ==
  /\ gate[1].commandPath = <<"gateway", "call">>
  /\ Unrecoverable(1)
  /\ gate[1].pc = "returned" /\ gate[1].exitCalls = <<>> /\ exitCode = 0

\* ------------------------------------------------------- auth choice claims
\* C21: for an authChoice other than "ollama", applyAuthChoiceOllama returns
\* null at once: promptAndConfigureOllama is not called, the prompter is not
\* used, no auth profile is written and no config comes back.
C21_NonOllamaIsNoOp ==
  (auth.pc \notin {"idle", "called"} /\ auth.params.authChoice # "ollama") =>
    /\ auth.pc = "returned"
    /\ auth.result.isNull /\ auth.result.config = NoConfig
    /\ auth.setupCalls = <<>>
    /\ auth.prompts = <<>>
    /\ auth.upserts = <<>>

\* the test's call: "openai-api-key" with setDefaultModel
C21_Witness ==
  /\ auth.pc = "returned"
  /\ auth.params.authChoice = "openai-api-key"
  /\ auth.params.setDefaultModel
  /\ auth.result.isNull

\* ------------------------------------------------- recovery engine, again
\* slot j cannot be promoted: it is missing or does not validate
Unusable(f, j) == ~existsSync(f, SlotPath(j)) \/ ~ValidateBackup(f, SlotPath(j)).ok

\* the attempt on candidate r.k is given up and the loop goes on with a later
\* slot, or ends in the failure result when no later slot can be promoted
AbandonedFor(c) ==
  LET r == rec[c]
      n == rec'[c]
  IN /\ n.aborted = r.aborted \cup {r.k}
     /\ \/ /\ n.pc \in {"rename", "restore"}
           /\ n.k > r.k
           /\ \A j \in Slots : (r.k < j /\ j < n.k) => Unusable(files', j)
        \/ /\ n.pc = "done" /\ ~n.result.recovered
           /\ \A j \in Slots : j > r.k => Unusable(files', j)
           /\ \A j \in Slots : Unusable(files', j) \/ j \in n.aborted

\* C22: for a valid candidate with an existing primary the rename to
\* .corrupted is tried; if it fails the copy to .corrupted is tried; if that
\* copy fails, or the copy of the candidate over the primary fails, the
\* candidate is given up and the loop goes on with a later slot, never the
\* same one, and returns the failure only when no slot is left.
C22_FallbackThenNextCandidate ==
  [][\A c \in Calls :
       LET r == rec[c]
           n == rec'[c]
       IN
       /\ (r.pc = "rename" /\ n # r) =>
            \/ n = [r EXCEPT !.pc = "restore"]
            \/ n = [r EXCEPT !.pc = "copyAside"] /\ files' = files
       /\ (r.pc = "copyAside" /\ n # r) =>
            \/ n = [r EXCEPT !.pc = "restore"]
            \/ AbandonedFor(c)
       /\ (r.pc = "restore" /\ n # r) =>
            \/ /\ n.pc = "done" /\ n.result.recovered
               /\ n.result.candidate.path = SlotPath(r.k)
            \/ AbandonedFor(c)
       /\ (n.pc = "rename" /\ n # r) => existsSync(files', ConfigPath)]_vars

\* both valid candidates were given up, and the call failed
C22_Witness ==
  /\ rec[1].pc = "done" /\ ~rec[1].result.recovered
  /\ rec[1].before[ConfigPath].exists
  /\ rec[1].aborted = {1, 2}
  /\ rec[1].result.backupsChecked = 3

\* an asynchronous operation of call c is in flight
InFlight(c) == rec[c].pc \in {"rename", "copyAside", "restore"}

\* C23: within a call the operations are issued one at a time in rotation
\* order: one operation at most is in flight; while it is, every earlier slot
\* is finished with (missing, invalid or given up); the slot index never goes
\* back and moves on only when the operation in flight has failed; files
\* change only through the operation in flight; after the promotion the call
\* does nothing more.
C23_OneOperationAtATimeInOrder ==
  /\ [](/\ Cardinality({c \in Calls : InFlight(c)}) <= 1
        /\ \A c \in Calls :
             InFlight(c) =>
               /\ rec[c].k \in Slots
               /\ \A j \in Slots :
                    j < rec[c].k => Unusable(files, j) \/ j \in rec[c].aborted)
  /\ [][/\ \A c \in Calls :
             /\ rec[c].pc # "idle" => rec'[c].k >= rec[c].k
             /\ (InFlight(c) /\ rec'[c].k # rec[c].k) =>
                  /\ rec[c].pc \in {"copyAside", "restore"}
                  /\ rec[c].k \in rec'[c].aborted
             /\ rec[c].pc = "done" => rec'[c] = rec[c]
        /\ files' # files =>
             /\ \E c \in Calls : InFlight(c) /\ rec'[c] # rec[c]
             /\ \A p \in BackupPaths : files'[p] = files[p]
        /\ (\A c \in Calls : rec[c].pc \in {"idle", "done", "threw"} /\ rec'[c] = rec[c]) =>
             files' = files]_vars

\* the third slot is being promoted after the first two were given up
C23_Witness ==
  /\ rec[1].pc = "restore" /\ rec[1].k = 3
  /\ rec[1].aborted = {1, 2}
  /\ rec[2].pc = "idle"

\* ------------------------------------------------------ startup gate, again
\* C24: with an unrecoverable config and a command that is not allowlisted,
\* runtime.exit(1) is called once, as the last call on the runtime, after the
\* heading, the file path, the issue list, the legacy issue list if there is
\* one, the backup-count line and the remediation hint; the backup-count line
\* gives the number of backups checked, or says that none is available when
\* that number is 0.
C24_ExitOnceAfterDiagnostics ==
  \A c \in Calls :
    (Unrecoverable(c) /\ gate[c].pc = "exited") =>
      LET trace == gate[c].trace
          last == Len(trace)
          errors == SelectSeq(trace, LAMBDA call : call.fn = "error")
          lines == [n \in 1..Len(errors) |-> errors[n].line]
          legacy == Len(gate[c].snapshot.legacyIssues) > 0
          checked == rec[c].result.backupsChecked
          countLine ==
            IF checked = 0 THEN "No backup files available for recovery."
            ELSE IF checked = 1 THEN "Checked 1 backup(s) but none were valid."
            ELSE IF checked = 2 THEN "Checked 2 backup(s) but none were valid."
            ELSE IF checked = 3 THEN "Checked 3 backup(s) but none were valid."
            ELSE "Checked 4 backup(s) but none were valid."
      IN
      /\ Cardinality({n \in 1..last : trace[n].fn = "exit"}) = 1
      /\ trace[last] = [fn |-> "exit", line |-> "", code |-> 1]
      /\ exitCode = 1
      /\ lines =
           << "Config invalid", "File: openclaw.json",
              "Problem:", "  - <root>: invalid config" >>
           \o (IF legacy
               THEN << "Legacy config keys detected:", "  - routing: legacy key" >>
               ELSE <<>>)
           \o << countLine, "", "Run: openclaw doctor --fix" >>

\* no backup at all, legacy keys in the config: nine runtime.error calls and
\* then the exit
C24_Witness ==
  /\ gate[1].pc = "exited"
  /\ Unrecoverable(1)
  /\ rec[1].result.backupsChecked = 0
  /\ Len(gate[1].snapshot.legacyIssues) > 0
  /\ Len(gate[1].trace) = 10

\* ------------------------------------------------------- enumerator claims
\* what every call of the enumerator has in common: CONFIG_BACKUP_COUNT
\* candidates, the first at <path>.bak, the i-th after it at <path>.bak.<i>
\* with the label .bak.<i>; the same path gives the same sequence; no file is
\* touched
EnumeratesSlots(firstLabel) ==
  /\ \A n \in 1..Len(enumerated) :
       LET configPath == enumerated[n].configPath
           candidates == enumerated[n].candidates
       IN /\ Len(candidates) = CONFIG_BACKUP_COUNT
          /\ candidates[1] = [path |-> configPath \o ".bak", label |-> firstLabel]
          /\ \A i \in 1..(CONFIG_BACKUP_COUNT - 1) :
               candidates[i + 1] = [path |-> configPath \o ".bak." \o ToString(i),
                                    label |-> ".bak." \o ToString(i)]
  /\ \A m, n \in 1..Len(enumerated) :
       enumerated[m].configPath = enumerated[n].configPath =>
         enumerated[m].candidates = enumerated[n].candidates

\* C25, as stated: the first candidate carries the label "most recent".
C25_FirstLabelMostRecent == EnumeratesSlots("most recent")

\* C25: the enumerator yields CONFIG_BACKUP_COUNT candidates in order, the
\* first at <path>.bak with the label ".bak (most recent)", the i-th after it
\* at <path>.bak.<i> with the label ".bak.<i>"; it is a function of the path
\* alone and leaves every file as it is.
C25_EnumeratorDeterministic ==
  /\ []EnumeratesSlots(".bak (most recent)")
  /\ [][enumerated' # enumerated => files' = files]_vars

\* the same path enumerated twice, another path in between
C25_Witness ==
  /\ Len(enumerated) >= 3
  /\ enumerated[1].configPath = enumerated[3].configPath
  /\ enumerated[2].configPath # enumerated[1].configPath
  /\ enumerated[1].candidates[1].label = ".bak (most recent)"

\* ------------------------------------------------------ snapshot cache claims
\* C26: in test mode nothing is ever cached and every invocation that comes
\* to read the snapshot starts a read of its own, which settles with the file
\* as it is then: an invocation made after the config changed sees the change.
C26_TestModeReadsAfresh ==
  /\ [](testMode =>
          /\ configSnapshotPromise = 0
          /\ \A c, d \in Calls :
               (c # d /\ gate[c].awaiting # 0) => gate[c].awaiting # gate[d].awaiting
          /\ Len(reads) = Cardinality({c \in Calls : gate[c].awaiting # 0}))
  /\ [][testMode =>
          /\ \A c \in Calls :
               (gate[c].pc # "snapshot" /\ gate'[c].pc = "snapshot") =>
                 /\ reads' = Append(reads, [state |-> "pending", snapshot |-> NoSnapshot])
                 /\ gate'[c].awaiting = Len(reads')
          /\ \A n \in 1..Len(reads) :
               (reads[n].state = "pending" /\ reads'[n].state = "fulfilled") =>
                 /\ reads'[n].snapshot.exists = files[ConfigPath].exists
                 /\ reads'[n].snapshot.valid =
                      (files[ConfigPath].exists /\ files[ConfigPath] \in {File(TextA), File(TextB)})]_vars

\* the first invocation found the config invalid and restored it; the second
\* read again and found it valid
C26_Witness ==
  /\ testMode
  /\ gate[1].pc = "returned" /\ gate[1].recovery.recovered
  /\ ~reads[gate[1].awaiting].snapshot.valid
  /\ gate[2].pc = "returned" /\ gate[2].awaiting = 2
  /\ reads[2].snapshot.valid
  /\ rec[2] = IdleRec

\* C30: outside test mode, once the first read has failed it stays cached: no
\* other read is ever started, and every invocation that comes to read the
\* snapshot awaits that read and is rejected by it, without a recovery, a
\* diagnostic or an exit.
C30_FailedReadStaysCached ==
  (~testMode /\ Len(reads) >= 1 /\ reads[1].state = "rejected") =>
    /\ Len(reads) = 1
    /\ configSnapshotPromise = 1
    /\ exitCode = 0
    /\ \A c \in Calls :
         /\ gate[c].pc \in {"idle", "doctor", "snapshot", "rejected"}
         /\ gate[c].pc = "snapshot" => gate[c].awaiting = 1
         /\ rec[c] = IdleRec
         /\ gate[c].out = <<>> /\ gate[c].exitCalls = <<>>

\* two invocations rejected by the one failed read
C30_Witness ==
  /\ ~testMode
  /\ Len(reads) = 1 /\ reads[1].state = "rejected"
  /\ gate[1].pc = "rejected" /\ gate[1].awaiting = 1
  /\ gate[2].pc = "rejected" /\ gate[2].awaiting = 1

\* ------------------------------------------------------------ frame claims
\* C27: when the primary exists at the start of a call, its content is at the
\* primary path or at the quarantine path in every state of the call and at
\* its return (until a later call starts), whatever operations fail.
C27_OriginalKept ==
  \A c \in Calls :
    (/\ rec[c].pc # "idle"
     /\ rec[c].before[ConfigPath].exists
     /\ \A d \in Calls : d > c => rec[d].pc = "idle") =>
      \/ files[ConfigPath] = rec[c].before[ConfigPath]
      \/ files[CorruptedPath(ConfigPath)] = rec[c].before[ConfigPath]

\* restored from a later slot after an attempt was given up: the original is
\* in quarantine, the primary holds the backup
C27_Witness ==
  /\ rec[1].pc = "done" /\ rec[1].result.recovered
  /\ rec[1].aborted # {}
  /\ rec[1].before[ConfigPath] = File(TextCorrupt)
  /\ files[CorruptedPath(ConfigPath)] = File(TextCorrupt)
  /\ files[ConfigPath] # File(TextCorrupt)
  /\ rec[2].pc = "idle"

\* C28: no step of findValidBackup or of tryRecoverConfigFromBackup changes a
\* rotation slot, so every slot is after the call what it was before it;
\* findValidBackup changes no file at all.
C28_SlotsUntouched ==
  /\ [](rec[1].pc # "idle" =>
          \A p \in BackupPaths : files[p] = rec[1].before[p])
  /\ [][/\ \A p \in BackupPaths : files'[p] = files[p]
        /\ findResult' # findResult => files' = files]_vars

\* the lookup found a backup and the recovery promoted one: the primary has
\* changed, the slots have not
C28_Witness ==
  /\ findResult.called /\ findResult.found
  /\ rec[1].pc = "done" /\ rec[1].result.recovered
  /\ files[ConfigPath] # rec[1].before[ConfigPath]
  /\ \A p \in BackupPaths : files[p] = rec[1].before[p]

\* ------------------------------------------------ write guard result claim
\* C29: for every input the result is safe exactly when it has no violation;
\* an unsafe result has at least one; the violations are taken from the three
\* codes and no code occurs twice.
C29_SafeIffNoViolation ==
  Checked =>
    LET violations == guard.result.violations IN
    /\ guard.result.safe <=> Len(violations) = 0
    /\ ~guard.result.safe => Len(violations) >= 1
    /\ \A n \in 1..Len(violations) :
         violations[n].code \in {"dropped-critical-keys", "excessive-key-loss",
                                 "excessive-size-drop"}
    /\ \A m, n \in 1..Len(violations) :
         violations[m].code = violations[n].code => m = n

\* a write labelled by its source that two heuristics reject, with a warning
C29_Witness ==
  /\ Checked
  /\ guard.options.source = "config.apply"
  /\ ~guard.result.safe
  /\ Len(guard.result.violations) = 2
  /\ Len(guard.result.warnings) = 1

====
